---- MODULE Spec2Model ----
(***************************************************************************)
(* OpenQuest RAG indexing service: the vector-store writer                 *)
(* (writeToVectorStore, fullReindex, upsertChunks, batchInsertChunks), the *)
(* index-repo job processor with its queue, and the submit endpoint.       *)
(***************************************************************************)
EXTENDS Integers, Sequences, FiniteSets, TLC

(* ------------------------------ bounds -------------------------------- *)

\* commit hashes are 1..NumHashes
NumHashes == 2
\* chunk payloads (content, embedding, embedded_at) are 1..NumContents
NumContents == 2
\* chunk positions (filePath, startLine) of the enumerated inputs are 1..MaxPos
MaxPos == 2
\* a sequential caller makes at most MaxCalls calls on the empty database
MaxCalls == 3
\* at most MaxFaults database calls fail in one behaviour
MaxFaults == 1
\* at most MaxJobs index jobs are submitted; as many callers run at once
MaxJobs == 2
\* a chunked file has at most MaxLines lines
MaxLines == 300
\* the symbols of a file of long blocks are LongBlock lines apart
LongBlock == 160
\* files chunked two at a time have at most MaxShort lines
MaxShort == 4
\* owner and repository names are spelt with up to MaxName characters
MaxName == 2
\* assembleContext is given at most MaxChunks chunks
MaxChunks == 3
\* clock values Date.now() takes
MaxNow == 2
\* characters of the contents of the retrieved chunks: a few, about half the
\* context budget, and a little under the budget
ShortContent == 10
HalfBudget == 6000
NearBudget == 11960

(* ------------------------- program constants -------------------------- *)

INSERT_BATCH_SIZE == 50
\* columns, hence numbered placeholders, of one row of the INSERT
COLUMNS_PER_ROW == 11
\* defaultJobOptions.attempts of the index-repo queue
ATTEMPTS == 3
\* concurrency of the index-repo worker
CONCURRENCY == 3
\* astChunker.ts: lines of a window, lines two windows share, the longest and
\* the shortest chunk
SLIDING_WINDOW_SIZE == 60
SLIDING_WINDOW_OVERLAP == 15
MAX_CHUNK_LINES == 150
MIN_CHUNK_LINES == 3
\* fileFilter.ts: the smallest file worth indexing
MIN_FILE_SIZE_BYTES == 10
\* contextAssembler.ts: the budget of the context; the characters of the
\* system prompt after the repoId
MAX_CONTEXT_CHARS == 12000
SystemPromptTailLength == 513

(* ------------------------------ values -------------------------------- *)

\* options.commitHash left out (commitHash?: string), and commit_hash NULL
Undefined == 0
Hashes == 1..NumHashes
HashOpts == Hashes \cup {Undefined}

\* strings are sequences of one-character strings
\* repoId `${owner}/${repo}`: R1 is the repository under study, R2 a bystander
R1 == <<"o", "/", "r">>
R2 == <<"o", "/", "s">>
Repos == {R1, R2}

\* CodeChunk inside an EmbeddedChunk: id is made from (repoId, filePath,
\* startLine), here (repoId, pos); `content` stands for the three columns an
\* upsert overwrites together (content, embedding, embedded_at).
EmbeddedChunk(r, pos, c) == [id |-> <<r, pos>>, repoId |-> r, content |-> c]

\* a code_chunks row; src is history: the commit hash (or Undefined) of the
\* writeToVectorStore call whose statement wrote the row's content
StoredChunk(e, h) == [id |-> e.id, repoId |-> e.repoId, content |-> e.content, src |-> h]

\* a repo_index row (exists = FALSE: findUnique returns null)
NoIndex == [exists |-> FALSE, commitHash |-> Undefined, chunkCount |-> 0]
RepoIndexRow(h, n) == [exists |-> TRUE, commitHash |-> h, chunkCount |-> n]

Min(a, b) == IF a < b THEN a ELSE b

ChunkIds(E) == {E[n].id : n \in 1..Len(E)}

\* the enumerated inputs of R1: for every set of positions and every choice
\* of contents the chunks in position order (distinct ids), and every pair of
\* chunks of one position with different contents (colliding ids)
Ascending(ps) ==
    LET RECURSIVE asc(_)
        asc(S) == IF S = {} THEN <<>>
                  ELSE LET m == CHOOSE x \in S : \A y \in S : x <= y
                       IN  <<m>> \o asc(S \ {m})
    IN  asc(ps)

DistinctInputs ==
    UNION {
        { [n \in 1..Cardinality(ps) |-> EmbeddedChunk(R1, Ascending(ps)[n], cs[Ascending(ps)[n]])] :
            cs \in [ps -> 1..NumContents] }
        : ps \in SUBSET (1..MaxPos) }

CollidingInputs ==
    { <<EmbeddedChunk(R1, pos, c1), EmbeddedChunk(R1, pos, c2)>> :
        pos \in 1..MaxPos, c1 \in 1..NumContents, c2 \in 1..NumContents }
    \ { <<EmbeddedChunk(R1, pos, c), EmbeddedChunk(R1, pos, c)>> :
        pos \in 1..MaxPos, c \in 1..NumContents }

SmallInputs == DistinctInputs \cup CollidingInputs

\* one input that needs a second INSERT statement
LongInput == [n \in 1..(INSERT_BATCH_SIZE + 1) |-> EmbeddedChunk(R1, n, 1)]

\* the bystander repository is only ever written with this input
OtherInput == <<EmbeddedChunk(R2, 1, 1)>>

\* the calls a caller may make: (repo, embedded, commitHash)
CallInputs ==
    {<<R1, E, h>> : E \in SmallInputs \cup {LongInput}, h \in HashOpts}
    \cup {<<R2, OtherInput, 1>>}

(* ------------------------------ state --------------------------------- *)

VARIABLES
    store,      \* table code_chunks: a set of StoredChunk rows, id is the key
    repoIndex,  \* table repo_index: repoId -> row
    call,       \* per caller: the writeToVectorStore activation
    pre,        \* tables as they were when the sequential caller's call began
    prev,       \* the sequential caller's previous call, as it ended
    ncalls,     \* calls the sequential caller has made
    nfaults,    \* database calls that have failed
    jobs,       \* index-repo queue: the jobs by id, 1..Len(jobs)
    waiting,    \* index-repo queue: ids of the jobs waiting for a worker, in order
    resp,       \* the last response of POST /api/index
    arg,        \* the arguments of the library call under study
    ret,        \* what that call has returned, once it has
    rag,        \* POST /api/rag/query: the request being handled
    now,        \* the clock, Date.now()
    tempDirs,   \* the directories git-master-* of os.tmpdir(), with their files
    fetches     \* per worker of the pool: the fetchViaClone activation

Procs == 1..MaxJobs

callerVars == <<pre, prev, ncalls>>
queueVars == <<jobs, waiting, resp>>
cloneVars == <<now, tempDirs, fetches>>
libVars == <<arg, ret, rag, cloneVars>>

IdleCall == [pc |-> "idle", repo |-> R1, E |-> <<>>, H |-> Undefined,
             upsert |-> FALSE, i |-> 0, totalInserted |-> 0, chunksDeleted |-> 0,
             strategy |-> "none", chunksWritten |-> 0, threwAt |-> "none"]

\* clean: no call of the caller has thrown so far
NoCall == [outcome |-> "none", repo |-> R1, E |-> <<>>, H |-> Undefined,
           strategy |-> "none", threwAt |-> "none", clean |-> TRUE]

(* ------------------------ batchInsertChunks --------------------------- *)

\* embedded.slice(i, i + INSERT_BATCH_SIZE)
Batch(E, i) == SubSeq(E, i + 1, Min(i + INSERT_BATCH_SIZE, Len(E)))

\* the numbers $k written into the VALUES clause of the statement at offset i
Placeholders(i, m) ==
    {(i + idx) * COLUMNS_PER_ROW + col : idx \in 0..(m - 1), col \in 1..COLUMNS_PER_ROW}

\* batch.flatMap(...): the parameters bound to the statement
ParamCount(m) == m * COLUMNS_PER_ROW

HasDuplicateIds(b) == \E m, n \in 1..Len(b) : m < n /\ b[m].id = b[n].id

\* $executeRawUnsafe succeeds iff every placeholder names a bound parameter
\* and, for ON CONFLICT DO UPDATE, no two proposed rows share the key
StatementOk(i, b, upsert) ==
    /\ Placeholders(i, Len(b)) \subseteq 1..ParamCount(Len(b))
    /\ upsert => ~HasDuplicateIds(b)

\* INSERT ... ON CONFLICT (id) DO NOTHING: a proposed row is inserted unless
\* its id is stored already or an earlier row of the statement has it
InsertDoNothing(st, b, h) ==
    st \cup {StoredChunk(b[n], h) :
               n \in {k \in 1..Len(b) :
                        /\ \A row \in st : row.id # b[k].id
                        /\ \A m \in 1..(k - 1) : b[m].id # b[k].id}}

\* INSERT ... ON CONFLICT (id) DO UPDATE SET content, embedding, embedded_at
\* (the ids of b are distinct, or the statement was rejected)
InsertDoUpdate(st, b, h) ==
    {row \in st : \A n \in 1..Len(b) : b[n].id # row.id}
    \cup {[row EXCEPT !.content = b[n].content, !.src = h] :
            <<row, n>> \in {x \in st \X (1..Len(b)) : x[1].id = b[x[2]].id}}
    \cup {StoredChunk(b[n], h) :
            n \in {k \in 1..Len(b) : \A row \in st : row.id # b[k].id}}

ExecInsert(st, b, upsert, h) ==
    IF upsert THEN InsertDoUpdate(st, b, h) ELSE InsertDoNothing(st, b, h)

\* variant: the loop is left before its first batch
LoopPcNoBatches(E, i) == "index"

\* where the for loop of batchInsertChunks stands with index i
LoopPc(E, i) == IF i < Len(E) THEN "insert" ELSE "index"

(* ------------------------- writeToVectorStore ------------------------- *)

\* the caller enters writeToVectorStore(E, {repoMeta: r, commitHash: h})
Enter(p, r, E, h) ==
    /\ call[p].pc = "idle"
    /\ call' = [call EXCEPT ![p] =
                 [IdleCall EXCEPT !.repo = r, !.E = E, !.H = h,
                    !.upsert = (h = Undefined),
                    !.pc = IF h # Undefined THEN "check" ELSE LoopPc(E, 0)]]

\* variant: any existing row counts as the same commit
SameCommitAnyHash(existing, h) == existing.exists

\* existing?.commitHash === options.commitHash
SameCommit(existing, h) == existing.exists /\ existing.commitHash = h

\* commit hash check: findUnique, then skip or go on to fullReindex
CommitHashCheck(p) ==
    /\ call[p].pc = "check"
    /\ call' = [call EXCEPT ![p] =
                 IF SameCommit(repoIndex[call[p].repo], call[p].H)
                 THEN [@ EXCEPT !.pc = "done", !.strategy = "skipped",
                                !.chunksWritten = 0, !.chunksDeleted = 0]
                 ELSE [@ EXCEPT !.pc = "find"]]
    /\ UNCHANGED <<store, repoIndex, nfaults, callerVars, queueVars, libVars>>

\* fullReindex: findUnique; the delete is issued only for an existing row
DeleteNeeded(existing) == existing.exists

FindExisting(p) ==
    /\ call[p].pc = "find"
    /\ call' = [call EXCEPT ![p].pc =
                 IF DeleteNeeded(repoIndex[call[p].repo]) THEN "delete"
                 ELSE LoopPc(call[p].E, 0)]
    /\ UNCHANGED <<store, repoIndex, nfaults, callerVars, queueVars, libVars>>

\* variant: the where clause selects the rows of the other repositories
DeleteManyOtherRepos(st, r) == {row \in st : row.repoId = r}

\* fullReindex: codeChunk.deleteMany({ where: { repoId } })
DeleteMany(st, r) == {row \in st : row.repoId # r}

DeleteChunks(p) ==
    /\ call[p].pc = "delete"
    /\ store' = DeleteMany(store, call[p].repo)
    /\ call' = [call EXCEPT ![p].chunksDeleted = Cardinality(store) - Cardinality(store'),
                            ![p].pc = LoopPc(call[p].E, 0)]
    /\ UNCHANGED <<repoIndex, nfaults, callerVars, queueVars, libVars>>

\* batchInsertChunks: one statement of the loop succeeds
InsertBatch(p) ==
    LET c == call[p]
        b == Batch(c.E, c.i)
    IN  /\ c.pc = "insert"
        /\ StatementOk(c.i, b, c.upsert)
        /\ store' = ExecInsert(store, b, c.upsert, c.H)
        /\ call' = [call EXCEPT ![p].totalInserted = c.totalInserted + Len(b),
                                ![p].i = c.i + INSERT_BATCH_SIZE,
                                ![p].pc = LoopPc(c.E, c.i + INSERT_BATCH_SIZE)]
        /\ UNCHANGED <<repoIndex, nfaults, callerVars, queueVars, libVars>>

\* batchInsertChunks: the database rejects the statement, the call throws
InsertRejected(p) ==
    LET c == call[p]
        b == Batch(c.E, c.i)
    IN  /\ c.pc = "insert"
        /\ ~StatementOk(c.i, b, c.upsert)
        /\ call' = [call EXCEPT ![p].pc = "threw", ![p].threwAt = "insert"]
        /\ UNCHANGED <<store, repoIndex, nfaults, callerVars, queueVars, libVars>>

\* variant: fullReindex's upsert has the update set of upsertChunks
UpsertedIndexKeepsHash(existing, upsert, h, n) ==
    RepoIndexRow(IF existing.exists THEN existing.commitHash ELSE Undefined, n)

\* variant: upsertChunks writes commitHash as fullReindex does
UpsertedIndexWritesHash(existing, upsert, h, n) == RepoIndexRow(h, n)

\* repoIndex.upsert of fullReindex (commitHash written) and of upsertChunks
\* (create: commitHash null; update: commitHash not in the update set)
UpsertedIndex(existing, upsert, h, n) ==
    IF upsert
    THEN RepoIndexRow(IF existing.exists THEN existing.commitHash ELSE Undefined, n)
    ELSE RepoIndexRow(h, n)

UpsertRepoIndex(p) ==
    LET c == call[p]
    IN  /\ c.pc = "index"
        /\ repoIndex' = [repoIndex EXCEPT ![c.repo] =
                           UpsertedIndex(repoIndex[c.repo], c.upsert, c.H, c.totalInserted)]
        /\ call' = [call EXCEPT ![p].pc = "done",
                                ![p].strategy = IF c.upsert THEN "upsert" ELSE "full-reindex",
                                ![p].chunksWritten = c.totalInserted,
                                ![p].chunksDeleted = IF c.upsert THEN 0 ELSE c.chunksDeleted]
        /\ UNCHANGED <<store, nfaults, callerVars, queueVars, libVars>>

\* a database call fails, or the process stops, at an await of the call
AwaitPcs == {"check", "find", "delete", "insert", "index"}

DbFault(p) ==
    /\ call[p].pc \in AwaitPcs
    /\ nfaults < MaxFaults
    /\ nfaults' = nfaults + 1
    /\ call' = [call EXCEPT ![p].pc = "threw", ![p].threwAt = call[p].pc]
    /\ UNCHANGED <<store, repoIndex, callerVars, queueVars, libVars>>

\* one database step of the call of p
WriterStep(p) ==
    \/ CommitHashCheck(p)
    \/ FindExisting(p)
    \/ DeleteChunks(p)
    \/ InsertBatch(p)
    \/ InsertRejected(p)
    \/ UpsertRepoIndex(p)

(* --------------------------- parseGitHubUrl --------------------------- *)

DotGit == <<".", "g", "i", "t">>
TreeSlash == <<"/", "t", "r", "e", "e", "/">>
GithubComSlash == <<"g", "i", "t", "h", "u", "b", ".", "c", "o", "m", "/">>
LineTerminators == {"\n", "\r"}

StartsAt(s, k, t) ==
    k >= 1 /\ k + Len(t) - 1 <= Len(s) /\ SubSeq(s, k, k + Len(t) - 1) = t

Least(S) == CHOOSE x \in S : \A y \in S : x <= y

\* url.replace(/\.git$/, "")
StripDotGit(s) ==
    IF StartsAt(s, Len(s) - Len(DotGit) + 1, DotGit)
    THEN SubSeq(s, 1, Len(s) - Len(DotGit)) ELSE s

\* .replace(/\/tree\/.*$/, ""): the leftmost "/tree/" that only characters
\* matched by `.` follow
StripTree(s) ==
    LET starts == {k \in 1..Len(s) :
                     /\ StartsAt(s, k, TreeSlash)
                     /\ \A n \in (k + Len(TreeSlash))..Len(s) : s[n] \notin LineTerminators}
    IN  IF starts = {} THEN s ELSE SubSeq(s, 1, Least(starts) - 1)

\* where the run [^/]+ that starts at a ends: the first "/" from a on, or the end
RunEnd(s, a) == Least({n \in a..(Len(s) + 1) : n = Len(s) + 1 \/ s[n] = "/"})

\* cleaned.match(/github\.com\/([^/]+)\/([^/]+)/): the positions it matches at
MatchStarts(s) ==
    {k \in 1..Len(s) :
        /\ StartsAt(s, k, GithubComSlash)
        /\ LET a == k + Len(GithubComSlash)
               b == RunEnd(s, a)
           IN  b > a /\ b <= Len(s) /\ RunEnd(s, b + 1) > b + 1}

\* ok = FALSE: throws Error("Invalid GitHub URL: ...")
parseGitHubUrl(url) ==
    LET cleaned == StripTree(StripDotGit(url))
        ks == MatchStarts(cleaned)
    IN  IF ks = {} THEN [ok |-> FALSE, owner |-> <<>>, repo |-> <<>>]
        ELSE LET a == Least(ks) + Len(GithubComSlash)
                 b == RunEnd(cleaned, a)
                 c == RunEnd(cleaned, b + 1)
             IN  [ok |-> TRUE, owner |-> SubSeq(cleaned, a, b - 1),
                  repo |-> SubSeq(cleaned, b + 1, c - 1)]

\* `${owner}/${repo}`
RepoIdOf(parsed) == parsed.owner \o <<"/">> \o parsed.repo

(* --------------------------- POST /api/index -------------------------- *)

\* values of req.body.githubUrl
JsString(s) == [type |-> "string", str |-> s]
JsNumber == [type |-> "number", str |-> <<>>]
JsUndefined == [type |-> "undefined", str |-> <<>>]
JsNull == [type |-> "object", str |-> <<>>]

UrlPlain == <<"h", "t", "t", "p", "s", ":", "/", "/", "g", "i", "t", "h", "u", "b", ".", "c", "o", "m", "/", "o", "/", "r">>
UrlDotGit == <<"h", "t", "t", "p", "s", ":", "/", "/", "g", "i", "t", "h", "u", "b", ".", "c", "o", "m", "/", "o", "/", "r", ".", "g", "i", "t">>
UrlNoRepo == <<"h", "t", "t", "p", "s", ":", "/", "/", "g", "i", "t", "h", "u", "b", ".", "c", "o", "m", "/", "o">>
UrlTree == <<"h", "t", "t", "p", "s", ":", "/", "/", "g", "i", "t", "h", "u", "b", ".", "c", "o", "m", "/", "o", "/", "r", "/", "t", "r", "e", "e", "/", "m", "a", "i", "n">>
UrlNoOwner == <<"h", "t", "t", "p", "s", ":", "/", "/", "g", "i", "t", "h", "u", "b", ".", "c", "o", "m", "/">>
UrlEmptyOwner == <<"g", "i", "t", "h", "u", "b", ".", "c", "o", "m", "/", "/", "r">>
NotAUrl == <<"n", "o", "t", "-", "a", "-", "u", "r", "l">>

RequestBodies ==
    {JsString(UrlPlain), JsString(UrlDotGit), JsString(UrlTree),
     JsString(UrlNoRepo), JsString(UrlNoOwner), JsString(UrlEmptyOwner), JsString(NotAUrl), JsString(<<>>),
     JsNumber, JsNull, JsUndefined}

\* parseGitHubUrl over the strings of the request bodies, computed once
Urls == {body.str : body \in RequestBodies}
Parsed == [url \in Urls |-> parseGitHubUrl(url)]

NoResult == [strategy |-> "none", chunksWritten |-> 0]

\* queue.add("index-repo", jobData); after: jobs that had completed when the
\* current attempt began (history)
NewJob(url) ==
    [url |-> url, state |-> "queued", pc |-> "none", attemptsMade |-> 0, progress |-> 0,
     commitHash |-> Undefined, chunks |-> <<>>, result |-> NoResult, after |-> {}]

NoResponse == [status |-> 0, error |-> "none", jobId |-> 0, body |-> JsUndefined]

\* !githubUrl || typeof githubUrl !== "string"
MissingUrl(v) == v.type # "string" \/ v.str = <<>>

\* variant: the handler does not call parseGitHubUrl
ValidateTypeOnly(v) == IF MissingUrl(v) THEN "githubUrl is required" ELSE ""

\* the handler's validation: "" accepted, or the error of the 400 response
Validate(v) ==
    IF MissingUrl(v) THEN "githubUrl is required"
    ELSE IF ~Parsed[v.str].ok THEN "Invalid GitHub URL"
    ELSE ""

PostIndex(body) ==
    /\ IF Validate(body) # ""
       THEN /\ resp' = [status |-> 400, error |-> Validate(body), jobId |-> 0, body |-> body]
            /\ UNCHANGED <<jobs, waiting>>
       ELSE /\ Len(jobs) < MaxJobs
            /\ jobs' = Append(jobs, NewJob(body.str))
            /\ waiting' = Append(waiting, Len(jobs) + 1)
            /\ resp' = [status |-> 202, error |-> "none", jobId |-> Len(jobs) + 1, body |-> body]
    /\ UNCHANGED <<store, repoIndex, call, pre, prev, ncalls, nfaults, libVars>>

(* ------------------------ index-repo queue, worker -------------------- *)

JobIds == DOMAIN jobs

\* the head commit of the default branch stays the same
HeadCommit == Least(Hashes)

\* what runIngestionPipeline may return for R1 at the head commit: nothing, one
\* chunk, or two chunks of one id (makeChunkId maps the paths a/b.ts and
\* a_b.ts to one id); files that fail to fetch are skipped
IngestOutputs ==
    {<<>>, <<EmbeddedChunk(R1, 1, 1)>>,
     <<EmbeddedChunk(R1, 1, 1), EmbeddedChunk(R1, 1, 2)>>}

\* the worker takes the job at the head of the queue while fewer than
\* CONCURRENCY jobs are active; the processor starts: updateProgress(5)
StartAttempt(j) ==
    /\ waiting # <<>> /\ Head(waiting) = j
    /\ Cardinality({k \in JobIds : jobs[k].state = "active"}) < CONCURRENCY
    /\ waiting' = Tail(waiting)
    /\ jobs' = [jobs EXCEPT ![j] =
                 [@ EXCEPT !.state = "active", !.pc = "meta", !.progress = 5,
                           !.commitHash = Undefined, !.chunks = <<>>,
                           !.after = {k \in JobIds : jobs[k].state = "completed"}]]
    /\ UNCHANGED <<store, repoIndex, call, nfaults, callerVars, resp, libVars>>

\* phase 1: parseGitHubUrl, repos.get, fetchLatestCommitHash (null when it
\* fails), updateProgress(10)
Phase1(j) ==
    /\ jobs[j].pc = "meta"
    /\ Parsed[jobs[j].url].ok
    /\ \E h \in {HeadCommit, Undefined} :
          jobs' = [jobs EXCEPT ![j] = [@ EXCEPT !.pc = "ingest", !.commitHash = h,
                                                !.progress = 10]]
    /\ UNCHANGED <<store, repoIndex, call, nfaults, waiting, callerVars, resp, libVars>>

\* what the processor returns when ingestion gave no chunks
EmptyCorpusResult == [strategy |-> "skipped", chunksWritten |-> 0]

\* variant: no early return, an empty corpus goes on to embedding
Phase2NoEarlyReturn(j) ==
    /\ jobs[j].pc = "ingest"
    /\ \E cs \in IngestOutputs :
          jobs' = [jobs EXCEPT ![j] = [@ EXCEPT !.pc = "embed", !.progress = 40, !.chunks = cs]]
    /\ UNCHANGED <<store, repoIndex, call, nfaults, waiting, callerVars, resp, libVars>>

\* phase 2: runIngestionPipeline, updateProgress(40), return when no chunks
Phase2(j) ==
    /\ jobs[j].pc = "ingest"
    /\ \E cs \in IngestOutputs :
          jobs' = [jobs EXCEPT ![j] =
                    IF Len(cs) = 0
                    THEN [@ EXCEPT !.pc = "return", !.progress = 40,
                                   !.result = EmptyCorpusResult]
                    ELSE [@ EXCEPT !.pc = "embed", !.progress = 40, !.chunks = cs]]
    /\ UNCHANGED <<store, repoIndex, call, nfaults, waiting, callerVars, resp, libVars>>

\* variant: phase 3 reports no progress
Phase3NoProgress(j) ==
    /\ jobs[j].pc = "embed"
    /\ Enter(j, RepoIdOf(Parsed[jobs[j].url]), jobs[j].chunks, jobs[j].commitHash)
    /\ jobs' = [jobs EXCEPT ![j] = [@ EXCEPT !.pc = "write"]]
    /\ UNCHANGED <<store, repoIndex, nfaults, waiting, callerVars, resp, libVars>>

\* phase 3: embedChunks, updateProgress(80); phase 4 begins: writeToVectorStore
Phase3(j) ==
    /\ jobs[j].pc = "embed"
    /\ Enter(j, RepoIdOf(Parsed[jobs[j].url]), jobs[j].chunks, jobs[j].commitHash)
    /\ jobs' = [jobs EXCEPT ![j] = [@ EXCEPT !.pc = "write", !.progress = 80]]
    /\ UNCHANGED <<store, repoIndex, nfaults, waiting, callerVars, resp, libVars>>

\* writeToVectorStore has returned: updateProgress(100), the result
Phase4Return(j) ==
    /\ jobs[j].pc = "write" /\ call[j].pc = "done"
    /\ jobs' = [jobs EXCEPT ![j] =
                 [@ EXCEPT !.pc = "return", !.progress = 100,
                           !.result = [strategy |-> call[j].strategy,
                                       chunksWritten |-> call[j].chunksWritten]]]
    /\ call' = [call EXCEPT ![j] = IdleCall]
    /\ UNCHANGED <<store, repoIndex, nfaults, waiting, callerVars, resp, libVars>>

\* the processor has returned: the job is completed
Complete(j) ==
    /\ jobs[j].pc = "return"
    /\ jobs' = [jobs EXCEPT ![j] = [@ EXCEPT !.state = "completed", !.pc = "none"]]
    /\ UNCHANGED <<store, repoIndex, call, nfaults, waiting, callerVars, resp, libVars>>

\* variant: a failed attempt is not counted
CountAttemptNot(n) == n

\* attemptsMade after an attempt has failed
CountAttempt(n) == n + 1

\* an external call of phases 1 to 3 throws, or writeToVectorStore has
\* thrown: the attempt has failed
AttemptFails(j) ==
    /\ \/ jobs[j].pc \in {"meta", "ingest", "embed"}
       \/ jobs[j].pc = "write" /\ call[j].pc = "threw"
    /\ jobs' = [jobs EXCEPT ![j] =
                 [@ EXCEPT !.state = "failed", !.pc = "none",
                           !.attemptsMade = CountAttempt(@)]]
    /\ call' = [call EXCEPT ![j] = IdleCall]
    /\ UNCHANGED <<store, repoIndex, nfaults, waiting, callerVars, resp, libVars>>

\* variant: one more retry than attempts allows
MayRetryOnceMore(job) == job.attemptsMade <= ATTEMPTS

\* a failed job is retried while attemptsMade is below attempts
MayRetry(job) == job.attemptsMade < ATTEMPTS

\* the backoff delay of a failed job is over: it waits for a worker again
Retry(j) ==
    /\ jobs[j].state = "failed" /\ MayRetry(jobs[j])
    /\ jobs' = [jobs EXCEPT ![j].state = "queued"]
    /\ waiting' = Append(waiting, j)
    /\ UNCHANGED <<store, repoIndex, call, nfaults, callerVars, resp, libVars>>

\* one step of the worker on job j, outside writeToVectorStore
JobStep(j) ==
    \/ StartAttempt(j) \/ Phase1(j) \/ Phase2(j) \/ Phase3(j) \/ Phase4Return(j)
    \/ Complete(j) \/ AttemptFails(j) \/ Retry(j)

(* ------------------------ githubFetcher.ts: fetchViaClone -------------- *)

\* path.join(os.tmpdir(), `git-master-${Date.now()}`)
TempDir(clock) == <<"git-master-", clock>>

IdleFetch == [pc |-> "idle", tempDir |-> TempDir(0), results |-> {}]

InProgress(p) == fetches[p].pc = "clone"

\* Date.now() has moved on
Tick ==
    /\ now < MaxNow
    /\ now' = now + 1
    /\ UNCHANGED <<store, repoIndex, call, nfaults, callerVars, queueVars, arg, ret, rag,
                   tempDirs, fetches>>

\* fetchViaClone up to its await: the name is taken, fs.mkdirSync with
\* recursive: true creates the directory unless it exists, git.clone begins
CloneStart(p) ==
    /\ fetches[p].pc = "idle"
    /\ LET dir == TempDir(now)
       IN  /\ fetches' = [fetches EXCEPT ![p] = [pc |-> "clone", tempDir |-> dir, results |-> {}]]
           /\ tempDirs' = IF \E d \in tempDirs : d.name = dir THEN tempDirs
                          ELSE tempDirs \cup {[name |-> dir, files |-> {}]}
    /\ UNCHANGED <<store, repoIndex, call, nfaults, callerVars, queueVars, arg, ret, rag, now>>

\* git.clone writes the files of p's checkout into the directory; when the
\* directory has been removed meanwhile it is made again
GitCloneWrites(p) ==
    /\ InProgress(p)
    /\ tempDirs' = {d \in tempDirs : d.name # fetches[p].tempDir}
                   \cup {[name |-> fetches[p].tempDir,
                          files |-> UNION {d.files : d \in {e \in tempDirs : e.name = fetches[p].tempDir}}
                                    \cup {p}]}
    /\ tempDirs' # tempDirs
    /\ UNCHANGED <<store, repoIndex, call, nfaults, callerVars, queueVars, arg, ret, rag, now, fetches>>

\* finally: fs.rmSync(tempDir, { recursive: true, force: true })
RmSync(dirs, dir) == {d \in dirs : d.name # dir}

\* git.clone resolves: walkDir reads the directory (readdirSync throws when
\* it is missing), then the finally block removes it, in one turn
WalkAndCleanUp(p) ==
    /\ InProgress(p)
    /\ fetches' = [fetches EXCEPT ![p] =
                     IF \E d \in tempDirs : d.name = fetches[p].tempDir
                     THEN [@ EXCEPT !.pc = "returned",
                              !.results = UNION {d.files : d \in {e \in tempDirs : e.name = fetches[p].tempDir}}]
                     ELSE [@ EXCEPT !.pc = "threw"]]
    /\ tempDirs' = RmSync(tempDirs, fetches[p].tempDir)
    /\ UNCHANGED <<store, repoIndex, call, nfaults, callerVars, queueVars, arg, ret, rag, now>>

\* git.clone rejects: the finally block removes the directory
CloneFails(p) ==
    /\ InProgress(p)
    /\ fetches' = [fetches EXCEPT ![p].pc = "threw"]
    /\ tempDirs' = RmSync(tempDirs, fetches[p].tempDir)
    /\ UNCHANGED <<store, repoIndex, call, nfaults, callerVars, queueVars, arg, ret, rag, now>>

\* the job that called the fetch has gone on: its worker may fetch again
FetchLeave(p) ==
    /\ fetches[p].pc \in {"returned", "threw"}
    /\ fetches' = [fetches EXCEPT ![p] = IdleFetch]
    /\ UNCHANGED <<store, repoIndex, call, nfaults, callerVars, queueVars, arg, ret, rag, now, tempDirs>>

(* ----------------------- sequential caller ---------------------------- *)

Snapshot == [store |-> store, repoIndex |-> repoIndex]

SeqEnter ==
    /\ ncalls < MaxCalls
    /\ \E in \in CallInputs : Enter(1, in[1], in[2], in[3])
    /\ pre' = Snapshot
    /\ ncalls' = ncalls + 1
    /\ UNCHANGED <<store, repoIndex, prev, nfaults, jobs, waiting, resp, libVars>>

\* the call has returned or thrown: the caller is free for the next call
SeqLeave ==
    /\ call[1].pc \in {"done", "threw"}
    /\ prev' = [outcome |-> IF call[1].pc = "done" THEN "returned" ELSE "threw",
                repo |-> call[1].repo, E |-> call[1].E, H |-> call[1].H,
                strategy |-> call[1].strategy, threwAt |-> call[1].threwAt,
                clean |-> prev.clean /\ call[1].pc = "done"]
    /\ call' = [call EXCEPT ![1] = IdleCall]
    /\ UNCHANGED <<store, repoIndex, pre, ncalls, nfaults, jobs, waiting, resp, libVars>>

vars == <<store, repoIndex, call, pre, prev, ncalls, nfaults, jobs, waiting, resp,
         arg, ret, rag, now, tempDirs, fetches>>

\* no query request is being handled
IdleQuery == [pc |-> "idle", retrieveCalls |-> <<>>, geminiCalls |-> <<>>,
              retrieved |-> <<>>, citationMap |-> <<>>]

\* the database, the callers and the queue before anything has run
InitService ==
    /\ store = {}
    /\ repoIndex = [r \in Repos |-> NoIndex]
    /\ call = [p \in Procs |-> IdleCall]
    /\ pre = [store |-> {}, repoIndex |-> [r \in Repos |-> NoIndex]]
    /\ prev = NoCall
    /\ ncalls = 0
    /\ nfaults = 0
    /\ jobs = <<>>
    /\ waiting = <<>>
    /\ resp = NoResponse
    /\ rag = IdleQuery
    /\ now = 0
    /\ tempDirs = {}
    /\ fetches = [p \in Procs |-> IdleFetch]

Init == InitService /\ arg = Undefined /\ ret = [returned |-> FALSE]

\* calls one after the other, no database fault
NextWriter ==
    \/ SeqEnter
    \/ CommitHashCheck(1)
    \/ FindExisting(1)
    \/ DeleteChunks(1)
    \/ InsertBatch(1)
    \/ InsertRejected(1)
    \/ UpsertRepoIndex(1)
    \/ SeqLeave
SpecWriter == Init /\ [][NextWriter]_vars

\* calls one after the other, any database call may fail
NextCrash ==
    \/ SeqEnter
    \/ CommitHashCheck(1)
    \/ FindExisting(1)
    \/ DeleteChunks(1)
    \/ InsertBatch(1)
    \/ InsertRejected(1)
    \/ UpsertRepoIndex(1)
    \/ DbFault(1)
    \/ SeqLeave
SpecCrash == Init /\ [][NextCrash]_vars

\* two callers at once, their database steps interleaved
ConcEnter(p) ==
    /\ ncalls < MaxCalls
    /\ \E E \in SmallInputs : \E h \in HashOpts : Enter(p, R1, E, h)
    /\ ncalls' = ncalls + 1
    /\ UNCHANGED <<store, repoIndex, pre, prev, nfaults, jobs, waiting, resp, libVars>>

\* both calls have returned: the callers are free again
ConcLeave ==
    /\ \A p \in Procs : call[p].pc \in {"done", "threw"}
    /\ call' = [p \in Procs |-> IdleCall]
    /\ UNCHANGED <<store, repoIndex, pre, prev, ncalls, nfaults, jobs, waiting, resp, libVars>>

NextConc ==
    \/ \E p \in Procs : ConcEnter(p)
    \/ \E p \in Procs : CommitHashCheck(p)
    \/ \E p \in Procs : FindExisting(p)
    \/ \E p \in Procs : DeleteChunks(p)
    \/ \E p \in Procs : InsertBatch(p)
    \/ \E p \in Procs : InsertRejected(p)
    \/ \E p \in Procs : UpsertRepoIndex(p)
    \/ ConcLeave
SpecConc == Init /\ [][NextConc]_vars

\* the submit endpoint, the queue and the worker pool
NextJobs ==
    \/ PostIndex(JsString(UrlPlain))
    \/ \E j \in JobIds : StartAttempt(j)
    \/ \E j \in JobIds : Phase1(j)
    \/ \E j \in JobIds : Phase2(j)
    \/ \E j \in JobIds : Phase3(j)
    \/ \E j \in JobIds : Phase4Return(j)
    \/ \E j \in JobIds : Complete(j)
    \/ \E j \in JobIds : AttemptFails(j)
    \/ \E j \in JobIds : Retry(j)
    \/ \E j \in JobIds : CommitHashCheck(j)
    \/ \E j \in JobIds : FindExisting(j)
    \/ \E j \in JobIds : DeleteChunks(j)
    \/ \E j \in JobIds : InsertBatch(j)
    \/ \E j \in JobIds : InsertRejected(j)
    \/ \E j \in JobIds : UpsertRepoIndex(j)
    \/ \E j \in JobIds : DbFault(j)
SpecJobs == Init /\ [][NextJobs]_vars

\* the submit endpoint alone, any request body
NextSubmit == \E body \in RequestBodies : PostIndex(body)
SpecSubmit == Init /\ [][NextSubmit]_vars

\* the worker pool keeps running every job it can
FairJobs ==
    SpecJobs /\ \A j \in 1..MaxJobs :
                  WF_vars(j \in JobIds /\ (JobStep(j) \/ WriterStep(j) \/ DbFault(j)))

\* clone-fallback fetches of the jobs running on the worker pool
NextClone ==
    \/ Tick
    \/ \E p \in Procs : CloneStart(p)
    \/ \E p \in Procs : GitCloneWrites(p)
    \/ \E p \in Procs : WalkAndCleanUp(p)
    \/ \E p \in Procs : CloneFails(p)
    \/ \E p \in Procs : FetchLeave(p)
SpecClone == Init /\ [][NextClone]_vars

(* ------------------------ astChunker.ts: strings ---------------------- *)

\* a file's content is a sequence of line texts and newline characters; a
\* line text stands for a run of characters other than the newline
NL == "\n"

Greatest(S) == CHOOSE x \in S : \A y \in S : x >= y

RECURSIVE ConcatRange(_, _, _)
\* ss[a] \o ... \o ss[b]
ConcatRange(ss, a, b) ==
    IF a > b THEN <<>>
    ELSE IF a = b THEN ss[a]
    ELSE LET m == (a + b) \div 2
         IN  ConcatRange(ss, a, m) \o ConcatRange(ss, m + 1, b)

\* lines.join("\n")
Join(ls) ==
    ConcatRange([k \in 1..(2 * Len(ls) - 1) |->
                    IF k % 2 = 1 THEN ls[(k + 1) \div 2] ELSE <<NL>>],
                1, 2 * Len(ls) - 1)

RECURSIVE SplitRange(_, _, _, _)
\* s.split(sep) on the characters a..b of s, sep one character
SplitRange(s, sep, a, b) ==
    IF a > b THEN << <<>> >>
    ELSE IF a = b THEN (IF s[a] = sep THEN << <<>>, <<>> >> ELSE << <<s[a]>> >>)
    ELSE LET m == (a + b) \div 2
             L == SplitRange(s, sep, a, m)
             R == SplitRange(s, sep, m + 1, b)
         IN  SubSeq(L, 1, Len(L) - 1) \o << L[Len(L)] \o R[1] >> \o Tail(R)

\* content.split("\n")
Split(s) == SplitRange(s, NL, 1, Len(s))

\* array.slice(i, j), 0-indexed, end exclusive
Slice(ls, i, j) == SubSeq(ls, i + 1, Min(j, Len(ls)))

UpperCase ==
    <<"A", "B", "C", "D", "E", "F", "G", "H", "I", "J", "K", "L", "M",
      "N", "O", "P", "Q", "R", "S", "T", "U", "V", "W", "X", "Y", "Z">>
LowerCase ==
    <<"a", "b", "c", "d", "e", "f", "g", "h", "i", "j", "k", "l", "m",
      "n", "o", "p", "q", "r", "s", "t", "u", "v", "w", "x", "y", "z">>
Digits == <<"0", "1", "2", "3", "4", "5", "6", "7", "8", "9">>
Range(f) == {f[k] : k \in DOMAIN f}

\* s.toLowerCase()
ToLowerCase(s) ==
    [k \in 1..Len(s) |->
        IF s[k] \in Range(UpperCase)
        THEN LowerCase[CHOOSE u \in 1..26 : UpperCase[u] = s[k]] ELSE s[k]]

RECURSIVE Decimal(_)
\* `${n}` of a natural number
Decimal(n) ==
    IF n < 10 THEN <<Digits[n + 1]>>
    ELSE Append(Decimal(n \div 10), Digits[(n % 10) + 1])

\* path.extname(p): from the last "." of the last segment, "" when that
\* segment has no "." after its first character
ExtName(p) ==
    LET base == Greatest({k \in 1..Len(p) : p[k] = "/"} \cup {0}) + 1
        dots == {k \in (base + 1)..Len(p) : p[k] = "."}
    IN  IF dots = {} THEN <<>> ELSE SubSeq(p, Greatest(dots), Len(p))

(* ------------------------ astChunker.ts: chunkFile -------------------- *)

\* s.replace(/[^a-zA-Z0-9]/g, "_")
SafeId(s) ==
    [k \in 1..Len(s) |->
        IF s[k] \in Range(UpperCase) \cup Range(LowerCase) \cup Range(Digits)
        THEN s[k] ELSE "_"]

makeChunkId(repoId, filePath, startLine) ==
    SafeId(repoId) \o <<"_", "_">> \o SafeId(filePath) \o <<"_", "_", "L">>
        \o Decimal(startLine)

Ext(s) == <<".">> \o s

detectLanguage(ext) ==
    CASE ext \in {Ext(<<"t", "s">>), Ext(<<"t", "s", "x">>)} -> "typescript"
      [] ext \in {Ext(<<"j", "s">>), Ext(<<"j", "s", "x">>), Ext(<<"m", "j", "s">>)} -> "javascript"
      [] ext = Ext(<<"p", "y">>) -> "python"
      [] ext \in {Ext(<<"m", "d">>), Ext(<<"m", "d", "x">>)} -> "markdown"
      [] ext = Ext(<<"j", "s", "o", "n">>) -> "json"
      [] ext \in {Ext(<<"y", "a", "m", "l">>), Ext(<<"y", "m", "l">>)} -> "yaml"
      [] ext = Ext(<<"t", "o", "m", "l">>) -> "toml"
      [] OTHER -> "text"

\* the line texts of the modelled files
ClassLine == "class C {"
FunctionLine == "export async function f() {"
ArrowLine == "const g = (a) => a"
DefLine == "async def h():"
PlainLine == "  return 1"

\* TS_SYMBOL_START_RE and PY_SYMBOL_START_RE on those line texts: the
\* captured name of a line that matches
TsSymbolName == [t \in {FunctionLine, ClassLine, ArrowLine} |->
                    CASE t = FunctionLine -> "f" [] t = ClassLine -> "C" [] OTHER -> "g"]
PySymbolName == [t \in {DefLine, ClassLine} |-> IF t = DefLine THEN "h" ELSE "C"]

NoSymbol == [name |-> "", part |-> 0]

\* the 1-indexed start lines of the lines that match, in line order
detectSymbolBoundaries(lines, re) ==
    SelectSeq([k \in 1..Len(lines) |-> k],
              LAMBDA k : lines[k] # <<>> /\ lines[k][1] \in DOMAIN re)

CodeChunk(repoId, filePath, language, chunkLines, startLine, endLine, symbolName, chunkIndex) ==
    [id |-> makeChunkId(repoId, filePath, startLine), repoId |-> repoId,
     filePath |-> filePath, language |-> language, content |-> Join(chunkLines),
     startLine |-> startLine, endLine |-> endLine, symbolName |-> symbolName,
     chunkIndex |-> chunkIndex]

RECURSIVE SlidingLoop(_, _, _, _, _, _)
\* the loop of slidingWindowChunk from index i on; chunks are those pushed so far
SlidingLoop(repoId, filePath, lines, language, i, chunks) ==
    IF ~(i < Len(lines)) THEN chunks
    ELSE LET startLine == i + 1
             endLine == Min(i + SLIDING_WINDOW_SIZE, Len(lines))
             chunkLines == Slice(lines, i, endLine)
             step == SLIDING_WINDOW_SIZE - SLIDING_WINDOW_OVERLAP
         IN  IF Len(chunkLines) < MIN_CHUNK_LINES
             THEN SlidingLoop(repoId, filePath, lines, language, i + step, chunks)
             ELSE LET pushed == Append(chunks,
                                   CodeChunk(repoId, filePath, language, chunkLines,
                                             startLine, endLine, NoSymbol, Len(chunks)))
                  IN  IF endLine >= Len(lines) THEN pushed
                      ELSE SlidingLoop(repoId, filePath, lines, language, i + step, pushed)

slidingWindowChunk(repoId, filePath, lines, language) ==
    SlidingLoop(repoId, filePath, lines, language, 0, <<>>)

RECURSIVE SplitLoop(_, _, _)
\* the sub-window loop of splitIfTooLarge from index i on; b holds the
\* arguments of splitIfTooLarge
SplitLoop(b, i, subChunks) ==
    IF ~(i < Len(b.chunkLines)) THEN subChunks
    ELSE LET slice == Slice(b.chunkLines, i, i + MAX_CHUNK_LINES)
         IN  IF Len(slice) < MIN_CHUNK_LINES THEN subChunks
             ELSE LET startLine == b.blockStartLine + i
                      pushed == Append(subChunks,
                                   CodeChunk(b.repoId, b.filePath, b.language, slice,
                                             startLine, startLine + Len(slice) - 1,
                                             [name |-> b.symbolName, part |-> Len(subChunks) + 1],
                                             b.baseIndex + Len(subChunks)))
                  IN  IF i + MAX_CHUNK_LINES >= Len(b.chunkLines) THEN pushed
                      ELSE SplitLoop(b, i + (MAX_CHUNK_LINES - SLIDING_WINDOW_OVERLAP), pushed)

\* variant: a block of any length is emitted as one chunk
splitNever(b) ==
    <<CodeChunk(b.repoId, b.filePath, b.language, b.chunkLines, b.blockStartLine,
                b.blockStartLine + Len(b.chunkLines) - 1,
                [name |-> b.symbolName, part |-> 0], b.baseIndex)>>

splitIfTooLarge(b) ==
    IF Len(b.chunkLines) < MIN_CHUNK_LINES THEN <<>>
    ELSE IF Len(b.chunkLines) <= MAX_CHUNK_LINES
    THEN <<CodeChunk(b.repoId, b.filePath, b.language, b.chunkLines, b.blockStartLine,
                     b.blockStartLine + Len(b.chunkLines) - 1,
                     [name |-> b.symbolName, part |-> 0], b.baseIndex)>>
    ELSE SplitLoop(b, 0, <<>>)

\* the body shared by chunkTypeScript and chunkPython: one block per symbol
\* boundary, up to the line before the next boundary or the end of the file
chunkSymbols(repoId, filePath, lines, re, language) ==
    LET symbolBoundaries == detectSymbolBoundaries(lines, re)
        block(i) ==
            LET startLine == symbolBoundaries[i + 1]
                endLine == IF i + 2 <= Len(symbolBoundaries)
                           THEN symbolBoundaries[i + 2] - 1 ELSE Len(lines)
            IN  splitIfTooLarge([repoId |-> repoId, filePath |-> filePath,
                                 language |-> language,
                                 chunkLines |-> Slice(lines, startLine - 1, endLine),
                                 blockStartLine |-> startLine,
                                 symbolName |-> re[lines[startLine][1]],
                                 baseIndex |-> i])
    IN  ConcatRange([k \in 1..Len(symbolBoundaries) |-> block(k - 1)],
                    1, Len(symbolBoundaries))

chunkTypeScript(repoId, filePath, lines) ==
    chunkSymbols(repoId, filePath, lines, TsSymbolName, "typescript")

chunkPython(repoId, filePath, lines) ==
    chunkSymbols(repoId, filePath, lines, PySymbolName, "python")

chunkFile(repoId, filePath, content) ==
    LET ext == ToLowerCase(ExtName(filePath))
        lines == Split(content)
        isScript == ext \in {Ext(<<"t", "s">>), Ext(<<"t", "s", "x">>), Ext(<<"j", "s">>),
                             Ext(<<"j", "s", "x">>), Ext(<<"m", "j", "s">>)}
        chunks == IF isScript THEN chunkTypeScript(repoId, filePath, lines)
                  ELSE IF ext = Ext(<<"p", "y">>) THEN chunkPython(repoId, filePath, lines)
                  ELSE slidingWindowChunk(repoId, filePath, lines, "text")
    IN  IF Len(chunks) = 0
        THEN [chunks |-> slidingWindowChunk(repoId, filePath, lines, detectLanguage(ext)),
              strategy |-> "sliding-window"]
        ELSE [chunks |-> chunks,
              strategy |-> IF isScript \/ ext = Ext(<<"p", "y">>) THEN "ast"
                           ELSE "sliding-window"]

\* chunkFiles: the chunks of the files, in file order
chunkFiles(repoId, files) ==
    ConcatRange([k \in 1..Len(files) |-> chunkFile(repoId, files[k].path, files[k].content).chunks],
                1, Len(files))

(* ------------------------ astChunker.ts: callers ---------------------- *)

PathTs == <<"a", "/", "b", ".", "t", "s">>
PathTsFlat == <<"a", "_", "b", ".", "t", "s">>
PathPy == <<"M", ".", "P", "Y">>
PathMd == <<"r", ".", "m", "d">>
ChunkPaths == {PathTs, PathTsFlat, PathPy, PathMd}

SymbolLines == <<FunctionLine, ClassLine, DefLine, ArrowLine>>

\* a file of n lines: from line first on, every step-th line opens a symbol;
\* lastEmpty: the content ends with a newline, so its last line is empty
FileContent(n, first, step, lastEmpty) ==
    [k \in 1..(IF lastEmpty THEN 2 * n - 2 ELSE 2 * n - 1) |->
        IF k % 2 = 0 THEN NL
        ELSE LET line == (k + 1) \div 2
             IN  IF line >= first /\ (line - first) % step = 0
                 THEN SymbolLines[(((line - first) \div step) % 4) + 1]
                 ELSE PlainLine]

FirstSymbolAt == {1, 4}
SymbolEvery == {1, LongBlock, MaxLines}

\* one file of up to MaxLines lines that ends with a newline, or two short
\* files of different paths, the first without a final newline
ChunkerInputs ==
    {<<[path |-> p, content |-> FileContent(n, first, step, TRUE)]>> :
        p \in ChunkPaths \ {PathTsFlat}, n \in 1..MaxLines, first \in FirstSymbolAt,
        step \in SymbolEvery}
    \cup UNION {
            {<<[path |-> p, content |-> FileContent(n, 1, 2, FALSE)],
               [path |-> q, content |-> FileContent(MaxShort, 1, MaxShort, TRUE)]>> :
               q \in ChunkPaths \ {PathMd, p}, n \in 1..MaxShort}
            : p \in ChunkPaths }

NotReturned == [returned |-> FALSE]
Return(v) == [returned |-> TRUE, value |-> v]

\* chunkFiles(repoId, files) is called and returns
RunChunkFiles ==
    /\ ~ret.returned
    /\ ret' = Return(chunkFiles(arg.repoId, arg.files))
    /\ UNCHANGED <<store, repoIndex, call, nfaults, callerVars, queueVars, arg, rag, cloneVars>>

InitChunker ==
    /\ InitService
    /\ arg \in {[repoId |-> R1, files |-> fs] : fs \in ChunkerInputs}
    /\ ret = NotReturned

NextChunker == RunChunkFiles
SpecChunker == InitChunker /\ [][NextChunker]_vars

(* ---------------------- parseGitHubUrl: callers ----------------------- *)

NameChars == {"o", "r", "-", "."}
TreeName == <<"t", "r", "e", "e">>
MainRef == <<"m", "a", "i", "n">>

\* the names of up to MaxName characters, and the name "tree"
Names == UNION {[1..n -> NameChars] : n \in 1..MaxName} \cup {TreeName}

\* GitHub user names: letters, digits and single inner hyphens
OwnerNames ==
    {w \in Names : /\ \A k \in 1..Len(w) : w[k] # "."
                   /\ w[1] # "-" /\ w[Len(w)] # "-"
                   /\ \A k \in 1..(Len(w) - 1) : ~(w[k] = "-" /\ w[k + 1] = "-")}

\* GitHub repository names: letters, digits, "-", "_" and ".", not "." or ".."
RepoNames == {w \in Names : \E k \in 1..Len(w) : w[k] # "."}

\* https://github.com/<owner>/<repo>, with ".git" or "/tree/<ref>" after it
UrlOf(form, owner, repo) ==
    UrlNoOwner \o owner \o <<"/">> \o repo \o
        (CASE form = "plain" -> <<>>
           [] form = "git" -> DotGit
           [] form = "tree" -> TreeSlash \o MainRef)

UrlInputs ==
    {[form |-> f, owner |-> o, repo |-> r, url |-> UrlOf(f, o, r)] :
        f \in {"plain", "git", "tree"}, o \in OwnerNames, r \in RepoNames}
    \cup {[form |-> "other", owner |-> <<>>, repo |-> <<>>, url |-> u] : u \in Urls}

\* parseGitHubUrl(url) is called and returns or throws
RunParseGitHubUrl ==
    /\ ~ret.returned
    /\ ret' = Return(parseGitHubUrl(arg.url))
    /\ UNCHANGED <<store, repoIndex, call, nfaults, callerVars, queueVars, arg, rag, cloneVars>>

InitUrl == InitService /\ arg \in UrlInputs /\ ret = NotReturned
NextUrl == RunParseGitHubUrl
SpecUrl == InitUrl /\ [][NextUrl]_vars

(* ------------------------ fileFilter.ts: filterFiles ------------------ *)

\* extensions of the files worth indexing
SUPPORTED_EXTENSIONS ==
    {<<".", "t", "s">>,
     <<".", "t", "s", "x">>,
     <<".", "j", "s">>,
     <<".", "j", "s", "x">>,
     <<".", "m", "j", "s">>,
     <<".", "c", "j", "s">>,
     <<".", "p", "y">>,
     <<".", "m", "d">>,
     <<".", "m", "d", "x">>,
     <<".", "j", "s", "o", "n">>,
     <<".", "y", "a", "m", "l">>,
     <<".", "y", "m", "l">>,
     <<".", "t", "o", "m", "l">>}

\* directory names that are never indexed
IGNORED_PATHS ==
    {<<"n", "o", "d", "e", "_", "m", "o", "d", "u", "l", "e", "s">>,
     <<".", "p", "n", "p">>,
     <<"v", "e", "n", "d", "o", "r">>,
     <<"v", "e", "n", "v">>,
     <<".", "v", "e", "n", "v">>,
     <<"e", "n", "v">>,
     <<"_", "_", "p", "y", "p", "a", "c", "k", "a", "g", "e", "s", "_", "_">>,
     <<"d", "i", "s", "t">>,
     <<"b", "u", "i", "l", "d">>,
     <<"o", "u", "t">>,
     <<".", "n", "e", "x", "t">>,
     <<".", "n", "u", "x", "t">>,
     <<".", "o", "u", "t", "p", "u", "t">>,
     <<".", "c", "a", "c", "h", "e">>,
     <<"_", "_", "p", "y", "c", "a", "c", "h", "e", "_", "_">>,
     <<".", "p", "y", "t", "e", "s", "t", "_", "c", "a", "c", "h", "e">>,
     <<"*", ".", "e", "g", "g", "-", "i", "n", "f", "o">>,
     <<".", "g", "i", "t">>,
     <<".", "s", "v", "n">>,
     <<".", "h", "g">>,
     <<".", "i", "d", "e", "a">>,
     <<".", "v", "s", "c", "o", "d", "e">>,
     <<"c", "o", "v", "e", "r", "a", "g", "e">>,
     <<".", "n", "y", "c", "_", "o", "u", "t", "p", "u", "t">>,
     <<"h", "t", "m", "l", "c", "o", "v">>,
     <<"t", "m", "p">>,
     <<"t", "e", "m", "p">>,
     <<"l", "o", "g", "s">>}

\* exact file names that are never indexed
IGNORED_FILENAMES ==
    {<<"p", "a", "c", "k", "a", "g", "e", "-", "l", "o", "c", "k", ".", "j", "s", "o", "n">>,
     <<"y", "a", "r", "n", ".", "l", "o", "c", "k">>,
     <<"p", "n", "p", "m", "-", "l", "o", "c", "k", ".", "y", "a", "m", "l">>,
     <<"p", "o", "e", "t", "r", "y", ".", "l", "o", "c", "k">>,
     <<"P", "i", "p", "f", "i", "l", "e", ".", "l", "o", "c", "k">>,
     <<"c", "o", "m", "p", "o", "s", "e", "r", ".", "l", "o", "c", "k">>,
     <<".", "D", "S", "_", "S", "t", "o", "r", "e">>,
     <<"T", "h", "u", "m", "b", "s", ".", "d", "b">>,
     <<".", "e", "n", "v">>,
     <<".", "e", "n", "v", ".", "l", "o", "c", "a", "l">>,
     <<".", "e", "n", "v", ".", "p", "r", "o", "d", "u", "c", "t", "i", "o", "n">>,
     <<".", "g", "i", "t", "i", "g", "n", "o", "r", "e">>,
     <<".", "g", "i", "t", "a", "t", "t", "r", "i", "b", "u", "t", "e", "s">>,
     <<".", "e", "d", "i", "t", "o", "r", "c", "o", "n", "f", "i", "g">>,
     <<".", "p", "r", "e", "t", "t", "i", "e", "r", "r", "c">>,
     <<".", "e", "s", "l", "i", "n", "t", "r", "c">>,
     <<".", "e", "s", "l", "i", "n", "t", "r", "c", ".", "j", "s">>,
     <<".", "e", "s", "l", "i", "n", "t", "r", "c", ".", "j", "s", "o", "n">>,
     <<"j", "e", "s", "t", ".", "c", "o", "n", "f", "i", "g", ".", "j", "s">>,
     <<"j", "e", "s", "t", ".", "c", "o", "n", "f", "i", "g", ".", "t", "s">>,
     <<"v", "i", "t", "e", "s", "t", ".", "c", "o", "n", "f", "i", "g", ".", "t", "s">>}

MAX_FILE_SIZE_BYTES == 500 * 1024

\* the character U+0000
NUL == "NUL"

\* s.split(sep) for a one-character separator
SplitOn(s, sep) == SplitRange(s, sep, 1, Len(s))

\* (n / 1024).toFixed(1): n / 1024 rounded to tenths
ToFixed1(n) ==
    LET tenths == (n * 20 + 1024) \div 2048
    IN  Decimal(tenths \div 10) \o <<".">> \o Decimal(tenths % 10)

\* variant: no path segment is looked at
NoDirectoryParts(pathParts) == <<>>

\* pathParts.slice(0, -1)
DirectoryParts(pathParts) == SubSeq(pathParts, 1, Len(pathParts) - 1)

\* variant: a file of exactly the maximum size is too large
TooLargeFromMax(sizeBytes) == sizeBytes >= MAX_FILE_SIZE_BYTES

TooLarge(sizeBytes) == sizeBytes > MAX_FILE_SIZE_BYTES

\* index = FALSE: the file is rejected for the reason
Index == [index |-> TRUE, reason |-> <<>>]
NoIndexFor(reason) == [index |-> FALSE, reason |-> reason]

shouldIndex(file) ==
    LET pathParts == SplitOn(file.path, "/")
        filename == pathParts[Len(pathParts)]
        dotParts == SplitOn(filename, ".")
        ext == IF "." \in Range(filename)
               THEN <<".">> \o ToLowerCase(dotParts[Len(dotParts)]) ELSE <<>>
        dirs == DirectoryParts(pathParts)
        ignored == {k \in 1..Len(dirs) : dirs[k] \in IGNORED_PATHS}
    IN  IF ignored # {}
        THEN NoIndexFor(<<"ignored directory: ">> \o dirs[Least(ignored)])
        ELSE IF filename \in IGNORED_FILENAMES
        THEN NoIndexFor(<<"ignored filename: ">> \o filename)
        ELSE IF ext \notin SUPPORTED_EXTENSIONS
        THEN NoIndexFor(<<"unsupported extension: ">> \o ext)
        ELSE IF TooLarge(file.sizeBytes)
        THEN NoIndexFor(<<"too large: ">> \o ToFixed1(file.sizeBytes) \o <<"K", "B">>)
        ELSE IF file.sizeBytes < MIN_FILE_SIZE_BYTES
        THEN NoIndexFor(<<"too small: ">> \o Decimal(file.sizeBytes) \o <<" bytes">>)
        ELSE IF NUL \in Range(file.content)
        THEN NoIndexFor(<<"binary file detected">>)
        ELSE Index

filterFiles(files) ==
    [accepted |-> SelectSeq(files, LAMBDA file : shouldIndex(file).index),
     rejected |->
        LET out == SelectSeq(files, LAMBDA file : ~shouldIndex(file).index)
        IN  [k \in 1..Len(out) |-> [path |-> out[k].path, reason |-> shouldIndex(out[k]).reason]]]

(* ------------------------ fileFilter.ts: callers ---------------------- *)

\* paths that no rule rejects, or some rule other than the directory rule
OtherPaths ==
    {<<"s", "r", "c", "/", "a", ".", "t", "s">>,
     <<"s", "r", "c", "/", "a", ".", "p", "n", "g">>,
     <<"A", ".", "T", "S">>,
     <<"M", "a", "k", "e", "f", "i", "l", "e">>,
     <<"y", "a", "r", "n", ".", "l", "o", "c", "k">>,
     <<"s", "r", "c", "/", ".", "e", "n", "v">>,
     <<"t", "m", "p", ".", "t", "s">>,
     <<"s", "r", "c", "/", "b", "u", "i", "l", "d", "/", "y", "a", "r", "n", ".", "l", "o", "c", "k">>,
     <<"s", "r", "c", "/", "j", "e", "s", "t", ".", "c", "o", "n", "f", "i", "g", ".", "t", "s">>,
     <<"a", ".", "b", "/", "c">>}

\* basenames of the forms .eslintrc* and jest.config.*
PatternPaths ==
    {<<".", "e", "s", "l", "i", "n", "t", "r", "c", ".", "y", "m", "l">>,
     <<".", "e", "s", "l", "i", "n", "t", "r", "c", ".", "c", "j", "s">>,
     <<"s", "r", "c", "/", "j", "e", "s", "t", ".", "c", "o", "n", "f", "i", "g", ".", "m", "j", "s">>,
     <<"j", "e", "s", "t", ".", "c", "o", "n", "f", "i", "g", ".", "j", "s", "o", "n">>,
     <<"s", "r", "c", "/", ".", "e", "s", "l", "i", "n", "t", "r", "c", ".", "j", "s", "o", "n">>}

\* every ignored directory name as the only segment, as the last segment, as
\* the first and as an inner directory of a path
FilterPaths ==
    OtherPaths
    \cup PatternPaths
    \cup IGNORED_PATHS
    \cup {<<"s", "r", "c", "/">> \o d : d \in IGNORED_PATHS}
    \cup {d \o <<"/", "a", ".", "t", "s">> : d \in IGNORED_PATHS}
    \cup {<<"s", "r", "c", "/">> \o d \o <<"/", "a", ".", "p", "n", "g">> : d \in IGNORED_PATHS}

FilterSizes ==
    {MIN_FILE_SIZE_BYTES - 1, MIN_FILE_SIZE_BYTES, MAX_FILE_SIZE_BYTES, MAX_FILE_SIZE_BYTES + 1}
FilterContents == {<<"a">>, <<"a", NUL, "b">>}

\* one file of any path, size and content, or two files of the other paths
FilterInputs ==
    {<<[path |-> p, content |-> c, sizeBytes |-> n]>> :
        p \in FilterPaths, c \in FilterContents, n \in FilterSizes}
    \cup {<<[path |-> p, content |-> <<"a">>, sizeBytes |-> MIN_FILE_SIZE_BYTES],
            [path |-> q, content |-> c, sizeBytes |-> MAX_FILE_SIZE_BYTES]>> :
            p \in OtherPaths, q \in OtherPaths, c \in FilterContents}

\* filterFiles(files) is called and returns
RunFilterFiles ==
    /\ ~ret.returned
    /\ ret' = Return(filterFiles(arg))
    /\ UNCHANGED <<store, repoIndex, call, nfaults, callerVars, queueVars, arg, rag, cloneVars>>

InitFilter == InitService /\ arg \in FilterInputs /\ ret = NotReturned
NextFilter == RunFilterFiles
SpecFilter == InitFilter /\ [][NextFilter]_vars

(* ------------------- contextAssembler.ts: assembleContext ------------- *)

\* a long string is a sequence of runs [ch, n]: the character ch, n times
Lit(t) == [k \in 1..Len(t) |-> [ch |-> t[k], n |-> 1]]
RunOf(ch, n) == IF n = 0 THEN <<>> ELSE <<[ch |-> ch, n |-> n]>>

RECURSIVE SumRange(_, _, _)
SumRange(s, a, b) ==
    IF a > b THEN 0
    ELSE IF a = b THEN s[a].n
    ELSE SumRange(s, a, (a + b) \div 2) + SumRange(s, ((a + b) \div 2) + 1, b)

\* s.length
Length(s) == SumRange(s, 1, Len(s))

\* parts.join(sep) of long strings
JoinWith(parts, sep) ==
    ConcatRange([k \in 1..(2 * Len(parts) - 1) |->
                    IF k % 2 = 1 THEN parts[(k + 1) \div 2] ELSE sep],
                1, 2 * Len(parts) - 1)

\* the character U+0060
Backtick == "backtick"
BlankLine == <<"\n", "\n">>
FileHeading == <<"#", "#", "#", " ", "F", "i", "l", "e", ":", " ", Backtick>>
Fence == <<Backtick, Backtick, Backtick>>
BlockRule == <<"\n", "\n", "-", "-", "-", "\n", "\n">>
SystemPromptHead ==
    <<"Y", "o", "u", " ", "a", "r", "e", " ", "a", " ", "c", "o", "d", "e", " ", "i",
     "n", "t", "e", "l", "l", "i", "g", "e", "n", "c", "e", " ", "a", "s", "s", "i",
     "s", "t", "a", "n", "t", " ", "f", "o", "r", " ", "t", "h", "e", " ", "r", "e",
     "p", "o", "s", "i", "t", "o", "r", "y", " ", Backtick>>
\* the rest of the system prompt, of SystemPromptTailLength characters
SystemPromptTail == RunOf("s", SystemPromptTailLength)
UserPromptHead == <<"#", "#", " ", "C", "o", "d", "e", "b", "a", "s", "e", " ", "C", "o", "n", "t",
       "e", "x", "t", "\n", "\n">>
UserPromptQuestion == <<"\n", "\n", "-", "-", "-", "\n", "\n", "#", "#", " ", "Q", "u", "e", "s", "t", "i",
       "o", "n", "\n", "\n">>
UserPromptTail ==
    <<"\n", "\n", "#", "#", " ", "A", "n", "s", "w", "e", "r", " ", "(", "c", "i", "t",
     "e", " ", "s", "o", "u", "r", "c", "e", "s", " ", "w", "i", "t", "h", " ", "[",
     "N", "]", " ", "m", "a", "r", "k", "e", "r", "s", ")">>
\* the character U+2013 of the line ranges
EnDash == "ndash"

\* groupByFile: the files in the order of their first chunk (Object.entries
\* of string keys that are not array indices), the chunks of a file sorted by
\* startLine, chunks of equal startLine in input order
groupByFile(chunks) ==
    LET firsts == SelectSeq([k \in 1..Len(chunks) |-> k],
                            LAMBDA k : \A j \in 1..(k - 1) :
                                          chunks[j].filePath # chunks[k].filePath)
        of(p) == SelectSeq(chunks, LAMBDA c : c.filePath = p)
        rank(cs, i) == Cardinality({j \in 1..Len(cs) :
                          \/ cs[j].startLine < cs[i].startLine
                          \/ cs[j].startLine = cs[i].startLine /\ j < i}) + 1
        sorted(cs) == [r \in 1..Len(cs) |-> cs[CHOOSE i \in 1..Len(cs) : rank(cs, i) = r]]
    IN  [f \in 1..Len(firsts) |->
            [filePath |-> chunks[firsts[f]].filePath,
             chunks |-> sorted(of(chunks[firsts[f]].filePath))]]

\* `[${citationIndex}]`
CitationKey(citationIndex) == <<"[">> \o Decimal(citationIndex) \o <<"]">>

\* chunkHeader and chunkBlock of a chunk under its citation key
ChunkBlock(chunk, citationKey) ==
    LET range == Decimal(chunk.startLine) \o <<EnDash>> \o Decimal(chunk.endLine)
        chunkHeader ==
            IF chunk.symbolName # <<>>
            THEN citationKey \o <<" ", Backtick>> \o chunk.symbolName
                    \o <<Backtick, " ", "(", "l", "i", "n", "e", "s", " ">> \o range \o <<")">>
            ELSE citationKey \o <<" ", "l", "i", "n", "e", "s", " ">> \o range
    IN  Lit(chunkHeader \o <<"\n">> \o Fence \o chunk.language \o <<"\n">>)
            \o chunk.content \o Lit(<<"\n">> \o Fence)

\* variant: the citation index is not advanced
SameCitationIndex(citationIndex) == citationIndex

\* citationIndex++
NextCitationIndex(citationIndex) == citationIndex + 1

RECURSIVE ChunkLoop(_, _, _)
\* the inner loop of assembleContext from the k-th chunk of a file on
ChunkLoop(fileChunks, k, st) ==
    IF k > Len(fileChunks) \/ st.totalChars > MAX_CONTEXT_CHARS THEN st
    ELSE LET chunk == fileChunks[k]
             citationKey == CitationKey(st.citationIndex)
             chunkBlock == ChunkBlock(chunk, citationKey)
         IN  ChunkLoop(fileChunks, k + 1,
                 [st EXCEPT
                    !.citationMap =
                        (citationKey :> [filePath |-> chunk.filePath,
                                         startLine |-> chunk.startLine,
                                         endLine |-> chunk.endLine,
                                         symbolName |-> chunk.symbolName]) @@ @,
                    !.fileBlock = Append(@, chunkBlock),
                    !.totalChars = @ + Length(chunkBlock),
                    !.citationIndex = NextCitationIndex(@)])

RECURSIVE FileLoop(_, _, _)
\* the outer loop of assembleContext from the f-th file on
FileLoop(grouped, f, st) ==
    IF f > Len(grouped) THEN st
    ELSE LET done == ChunkLoop(grouped[f].chunks, 1,
                        [st EXCEPT !.fileBlock =
                            <<Lit(FileHeading \o grouped[f].filePath \o <<Backtick>>)>>])
         IN  FileLoop(grouped, f + 1,
                 [done EXCEPT !.contextBlocks =
                     Append(@, JoinWith(done.fileBlock, Lit(BlankLine)))])

buildSystemPrompt(repoId) == Lit(SystemPromptHead \o repoId) \o SystemPromptTail

buildUserPrompt(query, contextSection) ==
    Lit(UserPromptHead) \o contextSection \o Lit(UserPromptQuestion) \o query
        \o Lit(UserPromptTail)

assembleContext(query, chunks, repoId) ==
    LET st == FileLoop(groupByFile(chunks), 1,
                  [citationMap |-> <<>>, contextBlocks |-> <<>>, fileBlock |-> <<>>,
                   citationIndex |-> 1, totalChars |-> 0])
        systemPrompt == buildSystemPrompt(repoId)
        userPrompt == buildUserPrompt(query, JoinWith(st.contextBlocks, Lit(BlockRule)))
    IN  [systemPrompt |-> systemPrompt, userPrompt |-> userPrompt,
         citationMap |-> st.citationMap,
         tokenEstimate |-> (Length(systemPrompt) + Length(userPrompt) + 3) \div 4]

(* ------------------- contextAssembler.ts: callers --------------------- *)

TypeScriptName == <<"t", "y", "p", "e", "s", "c", "r", "i", "p", "t">>
QueryText == Lit(<<"h", "o", "w", "?">>)

\* a retrieved chunk: of one of two files, from line 1 or line 40 on, with or
\* without a symbol name, with a content of x's
RetrievedChunks ==
    {[filePath |-> p, startLine |-> a, endLine |-> a + 9, symbolName |-> s,
      language |-> TypeScriptName, content |-> RunOf("x", n), score |-> 1] :
        p \in {PathTs, PathTsFlat}, a \in {1, 40}, s \in {<<>>, <<"f">>},
        n \in {ShortContent, HalfBudget, NearBudget}}

AssemblerInputs == UNION {[1..n -> RetrievedChunks] : n \in 0..MaxChunks}

\* assembleContext(query, chunks, repoId) is called and returns
RunAssembleContext ==
    /\ ~ret.returned
    /\ ret' = Return(assembleContext(arg.query, arg.chunks, arg.repoId))
    /\ UNCHANGED <<store, repoIndex, call, nfaults, callerVars, queueVars, arg, rag, cloneVars>>

InitAssembler ==
    /\ InitService
    /\ arg \in {[query |-> QueryText, chunks |-> cs, repoId |-> R1] : cs \in AssemblerInputs}
    /\ ret = NotReturned

NextAssembler == RunAssembleContext
SpecAssembler == InitAssembler /\ [][NextAssembler]_vars

(* ------------------------ POST /api/rag/query -------------------------- *)

WhiteSpace == {" ", "\t", "\n"}

\* String.prototype.trim
Trim(s) ==
    LET kept == {k \in 1..Len(s) : s[k] \notin WhiteSpace}
    IN  IF kept = {} THEN <<>> ELSE SubSeq(s, Least(kept), Greatest(kept))

JsNumberOf(n) == [type |-> "number", str |-> <<>>, num |-> n]

\* topK ?? 8
TopKOrDefault(topK) ==
    IF topK.type = "undefined" \/ topK.type = "object" THEN 8 ELSE topK.num

\* !repoId || typeof repoId !== "string"
RepoIdRejected(repoId) == repoId.type # "string" \/ repoId.str = <<>>

\* variant: the query is measured as it was sent
QueryRejectedUntrimmed(query) ==
    query.type # "string" \/ query.str = <<>> \/ Len(query.str) < 3

\* !query || typeof query !== "string" || query.trim().length < 3
QueryRejected(query) ==
    query.type # "string" \/ query.str = <<>> \/ Len(Trim(query.str)) < 3

RepoIdRequired == "repoId is required (e.g. 'owner/repo')"
QueryTooShort == "query must be at least 3 characters"
NoRelevantCode == "No relevant code was found for this query. The repository may not be indexed yet, or the question may be outside the scope of the codebase."
RagQueryFailed == "RAG query failed"
NoResponseGenerated == "No response generated."

\* parseFloat(score.toFixed(4)), the score in hundred-thousandths
ToFixed4(score) == ((score + 5) \div 10) * 10

\* the chunk list of the 200 response
ProjectChunks(chunks) ==
    [k \in 1..Len(chunks) |->
        [filePath |-> chunks[k].filePath, startLine |-> chunks[k].startLine,
         endLine |-> chunks[k].endLine, symbolName |-> chunks[k].symbolName,
         score |-> ToFixed4(chunks[k].score), language |-> chunks[k].language]]

\* the handler up to its first await: validation, then retrieve is called
PostQuery ==
    /\ rag.pc = "idle"
    /\ IF RepoIdRejected(arg.repoId)
       THEN /\ ret' = Return([status |-> 400, body |-> [error |-> RepoIdRequired]])
            /\ rag' = [rag EXCEPT !.pc = "done"]
       ELSE IF QueryRejected(arg.query)
       THEN /\ ret' = Return([status |-> 400, body |-> [error |-> QueryTooShort]])
            /\ rag' = [rag EXCEPT !.pc = "done"]
       ELSE /\ rag' = [rag EXCEPT !.pc = "retrieve",
                          !.retrieveCalls = Append(@, [query |-> Trim(arg.query.str),
                                                       repoId |-> arg.repoId.str,
                                                       topK |-> TopKOrDefault(arg.topK)])]
            /\ UNCHANGED ret
    /\ UNCHANGED <<store, repoIndex, call, nfaults, callerVars, queueVars, arg, cloneVars>>

\* retrieve(query, {repoId, topK}) resolves with chunks, and the handler
\* runs on to its response or to the call of callGemini
RetrieveReturns(result) ==
    /\ rag.pc = "retrieve"
    /\ IF Len(result.chunks) = 0
       THEN /\ ret' = Return([status |-> 200,
                              body |-> [answer |-> NoRelevantCode, citations |-> <<>>,
                                        chunks |-> <<>>, repoId |-> arg.repoId.str,
                                        query |-> arg.query.str]])
            /\ rag' = [rag EXCEPT !.pc = "done", !.retrieved = <<result>>]
       ELSE LET assembled == assembleContext(Lit(arg.query.str), result.chunks, arg.repoId.str)
            IN  /\ rag' = [rag EXCEPT !.pc = "gemini", !.retrieved = <<result>>,
                              !.citationMap = assembled.citationMap,
                              !.geminiCalls = Append(@, [systemPrompt |-> assembled.systemPrompt,
                                                         userPrompt |-> assembled.userPrompt])]
                /\ UNCHANGED ret
    /\ UNCHANGED <<store, repoIndex, call, nfaults, callerVars, queueVars, arg, cloneVars>>

\* catch (err): res.status(500)
QueryFails(message) ==
    /\ ret' = Return([status |-> 500, body |-> [error |-> RagQueryFailed, detail |-> message]])
    /\ rag' = [rag EXCEPT !.pc = "done"]
    /\ UNCHANGED <<store, repoIndex, call, nfaults, callerVars, queueVars, arg, cloneVars>>

\* retrieve rejects
RetrieveThrows(message) ==
    /\ rag.pc = "retrieve"
    /\ QueryFails(message)

\* callGemini resolves with the text of the first candidate, or with
\* "No response generated."
GeminiReturns(answer) ==
    /\ rag.pc = "gemini"
    /\ ret' = Return([status |-> 200,
                      body |-> [answer |-> answer, citations |-> rag.citationMap,
                                chunks |-> ProjectChunks(rag.retrieved[1].chunks),
                                meta |-> [repoId |-> arg.repoId.str, query |-> arg.query.str,
                                          totalCandidates |-> rag.retrieved[1].totalCandidates,
                                          chunksUsed |-> Len(rag.retrieved[1].chunks),
                                          retrievalMs |-> rag.retrieved[1].durationMs]]])
    /\ rag' = [rag EXCEPT !.pc = "done"]
    /\ UNCHANGED <<store, repoIndex, call, nfaults, callerVars, queueVars, arg, cloneVars>>

\* callGemini rejects: no API key, a response that is not ok, a failed fetch
GeminiThrows(message) ==
    /\ rag.pc = "gemini"
    /\ QueryFails(message)

(* ------------------------ POST /api/rag/query: callers ----------------- *)

QueryOk == <<"o", "k">>
QueryOkPadded == <<" ", " ", "o", "k", "\n">>
QueryBlank == <<" ", " ", " ">>
QueryHow == <<"h", "o", "w", "?">>
QueryHowPadded == <<" ", "h", "o", "w", "?", "\t">>

QueryBodies ==
    {[repoId |-> r, query |-> q, topK |-> k] :
        r \in {JsUndefined, JsNull, JsNumber, JsString(<<>>), JsString(R1)},
        q \in {JsUndefined, JsNumber, JsString(<<>>), JsString(QueryOk),
               JsString(QueryOkPadded), JsString(QueryBlank), JsString(QueryHow),
               JsString(QueryHowPadded)},
        k \in {JsUndefined, JsNumberOf(3)}}

\* scores in hundred-thousandths, none of them halfway between two roundings
ScoredChunks ==
    {[filePath |-> p, startLine |-> 1, endLine |-> 10, symbolName |-> <<>>,
      language |-> TypeScriptName, content |-> RunOf("x", ShortContent), score |-> s] :
        p \in {PathTs, PathPy}, s \in {50004, 87656}}

RetrievalResults ==
    {[chunks |-> cs, totalCandidates |-> Len(cs) + extra, durationMs |-> 7] :
        cs \in UNION {[1..n -> ScoredChunks] : n \in 0..2}, extra \in {0, 3}}

RetrievalErrors == {"connection refused", "embedding failed"}
GeminiAnswers == {"See [1].", NoResponseGenerated}
GeminiErrors == {"GEMINI_API_KEY not set", "Gemini LLM error 429: quota", "fetch failed"}

InitQuery ==
    /\ InitService
    /\ arg \in QueryBodies
    /\ ret = NotReturned

RetrieveReturnsSome == \E result \in RetrievalResults : RetrieveReturns(result)
RetrieveThrowsSome == \E message \in RetrievalErrors : RetrieveThrows(message)
GeminiReturnsSome == \E answer \in GeminiAnswers : GeminiReturns(answer)
GeminiThrowsSome == \E message \in GeminiErrors : GeminiThrows(message)

NextQuery ==
    \/ PostQuery
    \/ RetrieveReturnsSome
    \/ RetrieveThrowsSome
    \/ GeminiReturnsSome
    \/ GeminiThrowsSome

SpecQuery == InitQuery /\ [][NextQuery]_vars

(* ------------------------------ claims -------------------------------- *)

Cur == call[1]
Returned == Cur.pc = "done"
RepoRows(r) == {row \in store : row.repoId = r}
\* the rows of r are the chunks of E: the same ids, each with a content E gives it
HoldsExactly(r, E) ==
    /\ {row.id : row \in RepoRows(r)} = ChunkIds(E)
    /\ \A row \in RepoRows(r) :
          \E n \in 1..Len(E) : E[n].id = row.id /\ E[n].content = row.content

\* the call in progress repeats the caller's previous, returned call
Repeats ==
    /\ Cur.pc # "idle" /\ prev.outcome = "returned"
    /\ Cur.repo = prev.repo /\ Cur.E = prev.E /\ Cur.H = prev.H
    /\ Cur.H # Undefined

\* C1: a call that repeats the previous returned call (same repo, chunks and
\* commit hash) does nothing but the commit hash check, leaves code_chunks
\* and repo_index as they were, and returns skipped with 0 written, 0 deleted.
Thm_C1_IdempotentReindex ==
    Repeats =>
        /\ Cur.pc \in {"check", "done"}
        /\ store = pre.store /\ repoIndex = pre.repoIndex
        /\ Returned => /\ Cur.strategy = "skipped"
                       /\ Cur.chunksWritten = 0 /\ Cur.chunksDeleted = 0

Wit_C1_SecondCallSkipped ==
    Repeats /\ Returned /\ Cur.strategy = "skipped" /\ Len(Cur.E) > 0
    /\ HoldsExactly(Cur.repo, Cur.E)

\* the call that has returned follows a returned call with another commit hash
Replaces ==
    /\ Returned /\ prev.outcome = "returned" /\ Cur.repo = prev.repo
    /\ prev.H # Undefined /\ Cur.H # Undefined /\ prev.H # Cur.H

\* C2: after write(E1, H1) then write(E2, H2) with H1 # H2, no row of the
\* repo has an id of E1 that is not in E2, and a row whose id is in both has
\* a content E2 gives that id.
Thm_C2_CommitChangeReplaces ==
    Replaces =>
        \A row \in RepoRows(Cur.repo) :
            /\ row.id \notin (ChunkIds(prev.E) \ ChunkIds(Cur.E))
            /\ row.id \in ChunkIds(prev.E) \cap ChunkIds(Cur.E) =>
                 \E n \in 1..Len(Cur.E) :
                    Cur.E[n].id = row.id /\ Cur.E[n].content = row.content

Wit_C2_Replaced ==
    /\ Replaces
    /\ ChunkIds(prev.E) \ ChunkIds(Cur.E) # {}
    /\ \E m \in 1..Len(prev.E) : \E n \in 1..Len(Cur.E) :
          /\ prev.E[m].id = Cur.E[n].id /\ prev.E[m].content # Cur.E[n].content
          /\ \E row \in store : row.id = Cur.E[n].id /\ row.content = Cur.E[n].content

\* C3: after calls that all returned, a repo_index row with a commit hash
\* means every row of that repo was written by a call with that commit hash.
Cex_C3_RepoIndexInvariant ==
    (Cur.pc = "idle" /\ prev.clean) =>
        \A r \in Repos :
            (repoIndex[r].exists /\ repoIndex[r].commitHash # Undefined) =>
                \A row \in RepoRows(r) : row.src = repoIndex[r].commitHash

\* C4: once two concurrent calls on one repo, each with a commit hash and a
\* non-empty chunk set, have both returned, the rows of the repo are the
\* chunks of a call whose commit hash repo_index records.
Cex_C4_ConcurrentReindexSafe ==
    (\A p \in Procs : call[p].pc = "done" /\ call[p].H # Undefined /\ call[p].E # <<>>) =>
        \E p \in Procs :
            /\ repoIndex[R1].exists
            /\ repoIndex[R1].commitHash = call[p].H
            /\ HoldsExactly(R1, call[p].E)

\* the previous call was a full reindex that stopped after its delete step
\* and before its repo_index upsert had been done
StoppedReindex ==
    /\ prev.outcome = "threw" /\ prev.H # Undefined
    /\ prev.threwAt \in {"insert", "index"}

\* C5: the call with a commit hash that follows a full reindex stopped
\* between delete and repo_index upsert returns full-reindex, after which the
\* repo holds exactly its chunks and repo_index records its commit hash.
Cex_C5_CrashRecovery ==
    (StoppedReindex /\ Returned /\ Cur.repo = prev.repo /\ Cur.H # Undefined
       /\ Cur.E # <<>>) =>
        /\ Cur.strategy = "full-reindex"
        /\ HoldsExactly(Cur.repo, Cur.E)
        /\ repoIndex[Cur.repo].exists /\ repoIndex[Cur.repo].commitHash = Cur.H

\* C6: the strategy returned is decided by options.commitHash and the
\* repo_index row stored when the call began: skipped (and then nothing is
\* written) iff a hash is given and equals the stored one, full-reindex iff a
\* hash is given and no row exists or its hash differs, upsert iff none is given.
Thm_C6_StrategySelection ==
    Returned =>
        LET stored == pre.repoIndex[Cur.repo]
            given == Cur.H # Undefined
            same == stored.exists /\ stored.commitHash = Cur.H
        IN  /\ Cur.strategy \in {"skipped", "full-reindex", "upsert"}
            /\ Cur.strategy = "skipped" <=> (given /\ same)
            /\ Cur.strategy = "skipped" => (store = pre.store /\ repoIndex = pre.repoIndex)
            /\ Cur.strategy = "full-reindex" <=> (given /\ ~same)
            /\ Cur.strategy = "upsert" <=> ~given

\* a full reindex over an existing row with another hash has returned
Wit_C6_FullReindexOverOldHash ==
    /\ Returned /\ Cur.strategy = "full-reindex"
    /\ pre.repoIndex[Cur.repo].exists
    /\ pre.repoIndex[Cur.repo].commitHash \notin {Undefined, Cur.H}
    /\ prev.strategy = "skipped"

\* two jobs were submitted for R1 over an empty store; each completed at its
\* first attempt, fetched the head commit and embedded a non-empty corpus
BothCompleted ==
    /\ Len(jobs) = 2 /\ jobs[1].url = jobs[2].url
    /\ \A j \in {1, 2} :
          /\ jobs[j].state = "completed" /\ jobs[j].attemptsMade = 0
          /\ jobs[j].commitHash = HeadCommit /\ jobs[j].chunks # <<>>

SubmitThenSkip ==
    /\ jobs[1].result.strategy = "full-reindex"
    /\ jobs[2].result = [strategy |-> "skipped", chunksWritten |-> 0]

\* C7: for every schedule of the two jobs on the worker pool the
\* first-submitted job completes with full-reindex and the second with
\* skipped and chunksWritten = 0.
Cex_C7_SubmitSkipEverySchedule == BothCompleted => SubmitThenSkip

Accepted(body) == body.type = "string" /\ parseGitHubUrl(body.str).ok

Thm_C11_EmptyCorpusCompletes ==
    [][\A j \in JobIds :
          /\ (jobs[j].pc = "ingest" /\ jobs'[j].state = "active" /\ jobs'[j].chunks = <<>>) =>
                /\ jobs'[j].pc \in {"ingest", "return"}
                /\ jobs'[j].pc = "return" =>
                      /\ jobs'[j].result = [strategy |-> "skipped", chunksWritten |-> 0]
                      /\ UNCHANGED <<store, repoIndex, call>>
          /\ jobs'[j].pc \in {"embed", "write"} => jobs'[j].chunks # <<>>
          /\ (jobs[j].pc = "return" /\ jobs[j].chunks = <<>> /\ jobs'[j] # jobs[j]) =>
                /\ jobs'[j].state = "completed"
                /\ jobs'[j].attemptsMade = jobs[j].attemptsMade
                /\ jobs'[j].result = [strategy |-> "skipped", chunksWritten |-> 0]
                /\ UNCHANGED <<store, repoIndex, call, waiting>>
      ]_vars

Wit_C11_EmptyCorpusJobCompleted ==
    /\ Len(jobs) = 1 /\ jobs[1].state = "completed" /\ jobs[1].chunks = <<>>
    /\ jobs[1].attemptsMade = 0 /\ jobs[1].progress = 40
    /\ jobs[1].result = [strategy |-> "skipped", chunksWritten |-> 0]
    /\ store = {} /\ ~repoIndex[R1].exists

\* lines of a chunk by its line numbers
ChunkSize(c) == c.endLine - c.startLine + 1

\* C12: every chunk that chunkFile emits, on the symbol path, as a sub-window
\* of an oversized block or as a sliding window, spans at least 3 and at most
\* 150 lines by its line numbers, and its content has exactly that many lines.
Thm_C12_ChunkSizeBounds ==
    ret.returned =>
        \A k \in 1..Len(ret.value) :
            /\ 3 <= ChunkSize(ret.value[k]) /\ ChunkSize(ret.value[k]) <= 150
            /\ Len(Split(ret.value[k].content)) = ChunkSize(ret.value[k])

Wit_C12_ThirdSubWindow ==
    /\ ret.returned
    /\ \E k \in 1..Len(ret.value) :
          /\ ret.value[k].symbolName.part = 3 /\ ChunkSize(ret.value[k]) < 150
          /\ ChunkSize(ret.value[k - 1]) = 150

\* line l of file f lies in a chunk of f that holds the line's text at l
Covered(f, l) ==
    \E k \in 1..Len(ret.value) :
        /\ ret.value[k].filePath = f.path
        /\ ret.value[k].startLine <= l /\ l <= ret.value[k].endLine
        /\ Split(ret.value[k].content)[l - ret.value[k].startLine + 1] = Split(f.content)[l]

\* C13: every line of a chunked file lies in the line range of at least one
\* of the file's chunks, which holds that line's text at its place (stated
\* here for the files of at least 3 lines, the shortest a chunk can hold).
Cex_C13_ChunkCoverage ==
    ret.returned =>
        \A n \in 1..Len(arg.files) :
            Len(Split(arg.files[n].content)) >= 3 =>
                \A l \in 1..Len(Split(arg.files[n].content)) : Covered(arg.files[n], l)

\* C14: two chunks of one repository that differ in file path or in start
\* line have different ids, and chunks equal in both have the same id.
Cex_C14_ChunkIdsCollisionFree ==
    ret.returned =>
        \A j, k \in 1..Len(ret.value) :
            (ret.value[j].id = ret.value[k].id) <=>
                (/\ ret.value[j].filePath = ret.value[k].filePath
                 /\ ret.value[j].startLine = ret.value[k].startLine)

\* C15: parseGitHubUrl gives back the owner and the repository name of
\* https://github.com/<owner>/<repo>, of that URL with ".git" after it and of
\* that URL with "/tree/<ref>" after it, and throws for a string in which
\* github.com/<owner>/<repo> does not occur.
Cex_C15_UrlRoundTrip ==
    ret.returned =>
        /\ arg.form # "other" =>
              /\ ret.value.ok
              /\ ret.value.owner = arg.owner /\ ret.value.repo = arg.repo
        /\ MatchStarts(arg.url) = {} => ~ret.value.ok

\* the path has a segment, directory or last, that is an ignored directory name
HasIgnoredSegment(path) ==
    \E k \in 1..Len(SplitOn(path, "/")) : SplitOn(path, "/")[k] \in IGNORED_PATHS

FirstFailedRule(file) ==
    LET parts == SplitOn(file.path, "/")
        name == parts[Len(parts)]
        dots == {k \in 1..Len(name) : name[k] = "."}
        extension == IF dots = {} THEN <<>>
                     ELSE ToLowerCase(SubSeq(name, Greatest(dots), Len(name)))
    IN  IF \E k \in 1..(Len(parts) - 1) : parts[k] \in IGNORED_PATHS
        THEN "ignored directory: "
        ELSE IF name \in IGNORED_FILENAMES THEN "ignored filename: "
        ELSE IF extension \notin SUPPORTED_EXTENSIONS THEN "unsupported extension: "
        ELSE IF file.sizeBytes > 512000 THEN "too large: "
        ELSE IF file.sizeBytes < 10 THEN "too small: "
        ELSE IF \E k \in 1..Len(file.content) : file.content[k] = NUL
        THEN "binary file detected"
        ELSE "none"

BlockMarkers(prompt) ==
    LET digitsTo(k) == {j \in (k + 2)..Len(prompt) :
                           /\ prompt[j].ch = "]"
                           /\ \A d \in (k + 1)..(j - 1) : prompt[d].ch \in Range(Digits)}
        heads == {k \in 3..Len(prompt) :
                     /\ prompt[k].ch = "[" /\ prompt[k - 1].ch = "\n"
                     /\ prompt[k - 2].ch = "\n" /\ digitsTo(k) # {}}
    IN  [i \in 1..Cardinality(heads) |->
            [d \in 1..(Least(digitsTo(Ascending(heads)[i])) - Ascending(heads)[i] + 1) |->
                prompt[Ascending(heads)[i] + d - 1].ch]]

\* C18: the citation markers that head the blocks of the user prompt are
\* [1], [2], ... [n] in this order, without gap or repeat, each has its entry
\* in citationMap, and citationMap has no other entry.
Thm_C18_CitationTotality ==
    ret.returned =>
        LET markers == BlockMarkers(ret.value.userPrompt)
        IN  /\ markers = [i \in 1..Len(markers) |-> <<"[">> \o Decimal(i) \o <<"]">>]
            /\ DOMAIN ret.value.citationMap = Range(markers)

Wit_C18_TwoOfThreeCited ==
    /\ ret.returned /\ Len(arg.chunks) = 3
    /\ arg.chunks[1].filePath # arg.chunks[2].filePath
    /\ DOMAIN ret.value.citationMap = {<<"[", "1", "]">>, <<"[", "2", "]">>}
    /\ Len(BlockMarkers(ret.value.userPrompt)) = 2

\* characters of the context part of the returned user prompt: the prompt
\* without its fixed head, its question part and its fixed tail
ContextLength ==
    Length(ret.value.userPrompt) - Len(UserPromptHead) - Len(UserPromptQuestion)
        - Length(arg.query) - Len(UserPromptTail)

\* the chunks in the order of the prompt, and the length of the block of the
\* i-th of them
PromptOrder ==
    ConcatRange([f \in 1..Len(groupByFile(arg.chunks)) |-> groupByFile(arg.chunks)[f].chunks],
                1, Len(groupByFile(arg.chunks)))
BlockLength(i) == Length(ChunkBlock(PromptOrder[i], CitationKey(i)))

RECURSIVE BlocksBefore(_)
\* characters of the blocks emitted before the i-th
BlocksBefore(i) == IF i <= 1 THEN 0 ELSE BlocksBefore(i - 1) + BlockLength(i - 1)

\* C19: the context part of the user prompt, file headers, chunk blocks and
\* separators together, has at most 12000 characters plus the length of the
\* last emitted chunk block, and every emitted chunk was emitted while the
\* blocks before it had no more than 12000 characters.
Cex_C19_ContextBudget ==
    ret.returned =>
        LET n == Cardinality(DOMAIN ret.value.citationMap)
        IN  /\ ContextLength <= 12000 + (IF n = 0 THEN 0 ELSE BlockLength(n))
            /\ \A i \in 1..n : BlocksBefore(i) <= 12000

\* the request fails the validation of the endpoint
FailsValidation ==
    \/ arg.repoId.type # "string" \/ Len(arg.repoId.str) = 0
    \/ arg.query.type # "string" \/ Len(Trim(arg.query.str)) < 3

\* the response of the query endpoint once it has been sent
QueryResponse == ret.value

\* C20: POST /api/rag/query answers 400 without retrieving iff repoId is not a
\* non-empty string or the trimmed query is shorter than 3 characters;
\* otherwise retrieve is called once, a retrieval without chunks gives 200 with
\* the fixed answer, empty citations and empty chunks and no LLM call, a
\* retrieval with chunks is followed by one LLM call, and an error of the
\* retrieval or of the LLM gives 500.
Thm_C20_QueryOutcomes ==
    /\ [](/\ Len(rag.retrieveCalls) = (IF rag.pc = "idle" \/ FailsValidation THEN 0 ELSE 1)
          /\ Len(rag.geminiCalls) =
                (IF Len(rag.retrieved) = 1 /\ Len(rag.retrieved[1].chunks) > 0 THEN 1 ELSE 0)
          /\ ret.returned =>
                /\ QueryResponse.status \in {200, 400, 500}
                /\ QueryResponse.status = 400 <=> FailsValidation
                /\ (Len(rag.retrieved) = 1 /\ Len(rag.retrieved[1].chunks) = 0) =>
                        /\ QueryResponse.status = 200
                        /\ QueryResponse.body.answer = NoRelevantCode
                        /\ Len(QueryResponse.body.citations) = 0
                        /\ Len(QueryResponse.body.chunks) = 0)
    /\ [][/\ RetrieveThrowsSome => ret'.returned /\ ret'.value.status = 500
          /\ GeminiThrowsSome => ret'.returned /\ ret'.value.status = 500
          /\ GeminiReturnsSome => ret'.returned /\ ret'.value.status = 200]_vars

\* a padded query passed the validation, retrieve returned chunks, and the
\* one call of the LLM failed
Wit_C20_LlmFailedAfterRetrieval ==
    /\ ret.returned
    /\ QueryResponse.status = 500
    /\ Len(rag.geminiCalls) = 1
    /\ arg.query.str = QueryHowPadded

\* C21: repo_index is written last: the row of repo_index changes only in the
\* step that ends a call, taken when the loop of batchInsertChunks has run
\* every batch of the call; while a call is in progress, and when it has
\* thrown at the commit check, the delete or a batch insert, the rows of
\* repo_index are what they were when the call began.
Thm_C21_RepoIndexWrittenLast ==
    /\ [](Cur.pc \in AwaitPcs \cup {"threw"} => repoIndex = pre.repoIndex)
    /\ [](Cur.pc = "index" =>
            /\ Cur.i >= Len(Cur.E)
            /\ Cur.totalInserted = Len(Cur.E))
    /\ [][repoIndex' # repoIndex =>
            /\ Cur.pc = "index" /\ call'[1].pc = "done"
            /\ call'[1].strategy \in {"full-reindex", "upsert"}
            /\ store' = store]_vars

\* a full reindex over an indexed repository has deleted the old rows and
\* then thrown at a batch insert, and repo_index still has the old row
Wit_C21_ThrewAfterDelete ==
    /\ Cur.pc = "threw" /\ Cur.threwAt = "insert" /\ Cur.H # Undefined
    /\ pre.repoIndex[Cur.repo].exists
    /\ Cardinality(store) < Cardinality(pre.store)
    /\ repoIndex = pre.repoIndex

\* the statement the batch loop of the call in progress is about to issue
CurBatch == Batch(Cur.E, Cur.i)

\* C22: for every number n of embedded chunks (of distinct ids), every INSERT
\* statement of batchInsertChunks has at most 50 rows and placeholders
\* numbered within 1..11*rows, no statement is rejected, and a call that
\* returns after writing has persisted all n chunks and reports n.
Cex_C22_BatchedPersistence ==
    ~HasDuplicateIds(Cur.E) =>
        /\ Cur.pc = "insert" =>
              /\ Len(CurBatch) <= 50
              /\ Placeholders(Cur.i, Len(CurBatch)) \subseteq 1..(11 * Len(CurBatch))
        /\ Cur.pc # "threw"
        /\ (Returned /\ Cur.strategy # "skipped") =>
              /\ Cur.chunksWritten = Len(Cur.E)
              /\ ChunkIds(Cur.E) \subseteq {row.id : row \in store}

\* the rows of st whose id is not an id of E
Unmentioned(st, E) == {row \in st : row.id \notin ChunkIds(E)}

\* C23: during and after a call without commit hash the stored chunks whose
\* id is not in the input, of any repository, are the ones stored when the
\* call began, unchanged; the call returns upsert with chunksDeleted 0; the
\* commit hash recorded in repo_index is the one recorded before, and the
\* rows of the other repositories in repo_index are unchanged.
Thm_C23_UpsertFrame ==
    (Cur.pc # "idle" /\ Cur.H = Undefined) =>
        /\ Unmentioned(store, Cur.E) = Unmentioned(pre.store, Cur.E)
        /\ {row.id : row \in pre.store} \subseteq {row.id : row \in store}
        /\ repoIndex[Cur.repo].commitHash = pre.repoIndex[Cur.repo].commitHash
        /\ \A r \in Repos \ {Cur.repo} : repoIndex[r] = pre.repoIndex[r]
        /\ Returned => Cur.strategy = "upsert" /\ Cur.chunksDeleted = 0

\* an upsert over an indexed repository has returned: it updated one stored
\* row, left another one of the same repository alone and kept the hash
Wit_C23_UpsertKeptOtherRows ==
    /\ Returned /\ Cur.H = Undefined /\ Cur.strategy = "upsert"
    /\ pre.repoIndex[Cur.repo].commitHash # Undefined
    /\ \E row \in RepoRows(Cur.repo) : row.id \notin ChunkIds(Cur.E)
    /\ \E old \in pre.store : \E new \in store :
          old.id = new.id /\ old.content # new.content /\ new.src = Undefined

\* job j leaves phase 1 with the head commit that repo_index records for
\* its repository
LeavesPhase1AtStoredCommit(j) ==
    /\ jobs[j].pc = "meta" /\ jobs'[j].pc # "meta" /\ jobs'[j].state = "active"
    /\ jobs'[j].commitHash # Undefined
    /\ SameCommit(repoIndex[RepoIdOf(Parsed[jobs[j].url])], jobs'[j].commitHash)

\* C24: an attempt that has fetched a head commit equal to the commit hash
\* stored in repo_index goes from phase 1 straight to its return with strategy
\* skipped: it does not start the ingestion pipeline.
Cex_C24_CommitCheckBeforeIngestion ==
    [][\A j \in JobIds :
          LeavesPhase1AtStoredCommit(j) =>
              /\ jobs'[j].pc = "return"
              /\ jobs'[j].result.strategy = "skipped"]_vars

\* C25: two clone-fallback fetches in progress at the same time have
\* different temp directories, and the temp directory of a fetch in progress
\* exists until that fetch itself removes it.
Cex_C25_CloneTempDirsUnique ==
    /\ \A p, q \in Procs :
          (p # q /\ InProgress(p) /\ InProgress(q)) =>
              fetches[p].tempDir # fetches[q].tempDir
    /\ \A p \in Procs :
          InProgress(p) => \E d \in tempDirs : d.name = fetches[p].tempDir

EslintrcPrefix == <<".", "e", "s", "l", "i", "n", "t", "r", "c">>
JestConfigPrefix == <<"j", "e", "s", "t", ".", "c", "o", "n", "f", "i", "g", ".">>

\* the basename is a name of the filename denylist, or has the form .eslintrc*
\* or jest.config.*
MatchesFilenameDenylist(path) ==
    LET parts == SplitOn(path, "/")
        name == parts[Len(parts)]
    IN  \/ name \in IGNORED_FILENAMES
        \/ StartsAt(name, 1, EslintrcPrefix)
        \/ StartsAt(name, 1, JestConfigPrefix) /\ Len(name) > Len(JestConfigPrefix)

\* C26: a file whose basename matches the filename denylist, its patterns
\* .eslintrc* and jest.config.* included, and that lies in no ignored
\* directory, is rejected with the reason 'ignored filename'.
Cex_C26_FilenamePatterns ==
    ret.returned =>
        \A k \in 1..Len(arg) :
            (/\ MatchesFilenameDenylist(arg[k].path)
             /\ FirstFailedRule(arg[k]) # "ignored directory: ") =>
                /\ \A n \in 1..Len(ret.value.accepted) : ret.value.accepted[n] # arg[k]
                /\ \E n \in 1..Len(ret.value.rejected) :
                      /\ ret.value.rejected[n].path = arg[k].path
                      /\ ret.value.rejected[n].reason[1] = "ignored filename: "

\* the places in the returned list of the chunks of the file at path
ChunksOf(path) == {k \in 1..Len(ret.value) : ret.value[k].filePath = path}

\* C27: the k-th chunk (0-based) that chunkFile returns for a file has
\* chunkIndex k, also when an oversized symbol block was split or a short
\* block was skipped.
Cex_C27_ChunkIndexIsPosition ==
    ret.returned =>
        \A n \in 1..Len(arg.files) :
            \A k \in ChunksOf(arg.files[n].path) :
                ret.value[k].chunkIndex =
                    Cardinality({m \in ChunksOf(arg.files[n].path) : m < k})

\* the extensions that chunkFile gives to a symbol-aware chunker
SymbolAwareExtensions ==
    {Ext(<<"t", "s">>), Ext(<<"t", "s", "x">>), Ext(<<"j", "s">>), Ext(<<"j", "s", "x">>),
     Ext(<<"m", "j", "s">>), Ext(<<"p", "y">>)}

\* C28: every chunk of a file whose extension no symbol-aware chunker handles
\* carries the language that the extension map gives for that extension.
Cex_C28_SlidingWindowLanguage ==
    ret.returned =>
        \A k \in 1..Len(ret.value) :
            LET ext == ToLowerCase(ExtName(ret.value[k].filePath))
            IN  ext \notin SymbolAwareExtensions =>
                    ret.value[k].language = detectLanguage(ext)

\* C29: when a call has returned full-reindex or upsert, chunksWritten and
\* the chunkCount of the repository's repo_index row are the number of rows
\* that code_chunks holds for the repository.
Cex_C29_ChunkCountMatchesStore ==
    (Returned /\ Cur.strategy \in {"full-reindex", "upsert"}) =>
        /\ Cur.chunksWritten = Cardinality(RepoRows(Cur.repo))
        /\ repoIndex[Cur.repo].chunkCount = Cardinality(RepoRows(Cur.repo))

\* the progress values in the order the processor reports them
ProgressOrder == <<5, 10, 40, 80, 100>>

\* within an attempt of a job a progress report is the value that follows
\* the last one in ProgressOrder
ProgressInOrder ==
    [][\A j \in JobIds :
          (jobs[j].state = "active" /\ jobs'[j].state = "active"
             /\ jobs'[j].progress # jobs[j].progress) =>
              \E k \in 1..(Len(ProgressOrder) - 1) :
                  /\ jobs[j].progress = ProgressOrder[k]
                  /\ jobs'[j].progress = ProgressOrder[k + 1]]_vars

\* an attempt begins with progress 5
AttemptBeginsAtFive ==
    [][\A j \in JobIds :
          (jobs[j].state # "active" /\ jobs'[j].state = "active") =>
              jobs'[j].progress = ProgressOrder[1]]_vars

\* C30 as stated: within an attempt the progress values are taken in the
\* order 5, 10, 40, 80, 100, and every completed job has progress 100.
Cex_C30_ProgressOfJob ==
    /\ ProgressInOrder
    /\ AttemptBeginsAtFive
    /\ [](\A j \in JobIds : jobs[j].state = "completed" => jobs[j].progress = 100)

\* C30: within an attempt the progress values are taken in the order 5, 10,
\* 40, 80, 100; a completed job has progress 100, or progress 40 when its
\* ingestion gave no chunks and it returned skipped after phase 2.
Thm_C30_ProgressOfJobAmended ==
    /\ ProgressInOrder
    /\ AttemptBeginsAtFive
    /\ [](\A j \in JobIds :
            jobs[j].state = "completed" =>
                \/ jobs[j].progress = 100 /\ jobs[j].chunks # <<>>
                \/ /\ jobs[j].progress = 40 /\ jobs[j].chunks = <<>>
                   /\ jobs[j].result = EmptyCorpusResult)

\* one job has completed at progress 100 after a failed attempt, another at
\* progress 40 with an empty corpus
Wit_C30_CompletedAtHundredAndAtForty ==
    /\ Len(jobs) = 2
    /\ jobs[1].state = "completed" /\ jobs[1].progress = 100 /\ jobs[1].attemptsMade = 1
    /\ jobs[2].state = "completed" /\ jobs[2].progress = 40

====
